---------------------------- MODULE Spec2Model ----------------------------
(***************************************************************************)
(* A model of the blog backend's article model and search subsystem:       *)
(*   app/db/models/article.py      counters, versions, search vector       *)
(*   app/db/utils/search.py        full-text search with fuzzy fallback    *)
(*   app/db/utils/vector_search.py vector search and hybrid fusion         *)
(*                                                                         *)
(* Python floats are modelled as exact rationals <<n, d>> with d > 0 in    *)
(* lowest terms, strings as sequences of one-character strings, times as   *)
(* whole seconds.  PostgreSQL's functions (to_tsvector, ts_rank_cd,        *)
(* similarity, ILIKE, the pgvector operators) are modelled by what they    *)
(* compute on these small values.                                          *)
(***************************************************************************)
EXTENDS Integers, Sequences, FiniteSets, TLC

(***************************************************************************)
(* Bounds of the model.                                                    *)
(***************************************************************************)
NumCallers == 3
MaxStored == 1
MaxVersions == 2
NumArticles == 2
MaxLimit == 2

(***************************************************************************)
(* Program constants.                                                      *)
(***************************************************************************)
SecondsPerDay == 86400
RecentDays == 30

\* An optional value is a sequence of no element (None, SQL NULL) or one.
None == <<>>
Some(x) == <<x>>

VARIABLES
    dbViews,     \* articles.views of the stored row
    dbLikes,     \* articles.likes of the stored row
    counter0,    \* the stored counters before the first request
    callers,     \* per concurrent request: its Article instance and its call
    art,         \* one article: its text columns and its search_vector
    versions,    \* the article's stored ArticleVersion rows, in list order
    artOp,       \* the last operation on the article and whether it changed text
    corpus,      \* the articles table the searches read: id -> row
    call,        \* the search call of the request: its function and arguments
    fused,       \* hybrid_search's results_by_id after its two merge loops
    ranked,      \* hybrid_search's local list "results" after its sort
    result,      \* what the search call returned
    statements,  \* how many SQL statements the last request's session executed
    apiKey,      \* the module's OPENAI_API_KEY, read from the environment
    cache,       \* get_cached_embedding's lru_cache: <<text, vector>>, oldest first
    requests,    \* the POSTs sent to the embedding provider so far
    users,       \* the users table, in id order: users[id] is the row
    issued,      \* every token generate_verification_token returned, by whom
    authOp,      \* the last account request: its call and what it returned
    subscribers, \* the subscribers table, in id order
    drawn,       \* how many tokens Subscriber.generate_verification_token returned
    subOp        \* the last subscriber request: its call and what it returned

counterVars == <<dbViews, dbLikes, counter0, callers>>
contentVars == <<art, versions, artOp>>
searchVars == <<corpus, call, fused, ranked, result, statements>>
embedVars == <<apiKey, cache, requests>>
authVars == <<users, issued, authOp>>
subscriberVars == <<subscribers, drawn, subOp>>
accountVars == <<authVars, subscriberVars>>

vars == <<counterVars, contentVars, searchVars, embedVars, accountVars>>

\* what the operations of one part leave alone
outsideCounter == <<contentVars, searchVars, embedVars, accountVars>>
outsideContent == <<counterVars, searchVars, embedVars, accountVars>>
outsideSearch == <<counterVars, contentVars, embedVars, accountVars>>
outsideAuth == <<counterVars, contentVars, searchVars, embedVars, subscriberVars>>
outsideSubscriber == <<counterVars, contentVars, searchVars, embedVars, authVars>>

NoRequest == [op |-> "none", token |-> 0, row |-> 0, returned |-> "none"]

\* the users and the subscribers at rest, in the specifications of the other parts
AuthIdle ==
    /\ users = <<>>
    /\ issued = <<>>
    /\ authOp = NoRequest

SubscriberIdle ==
    /\ subscribers = <<>>
    /\ drawn = 0
    /\ subOp = NoRequest

AccountIdle == AuthIdle /\ SubscriberIdle

(***************************************************************************)
(* Exact rational arithmetic standing for Python's float arithmetic.       *)
(***************************************************************************)
Abs(n) == IF n < 0 THEN -n ELSE n

RECURSIVE GCD(_, _)
GCD(a, b) == IF b = 0 THEN a ELSE GCD(b, a % b)

Rat(n, d) ==
    LET s == IF d < 0 THEN -1 ELSE 1
        g == GCD(Abs(n), Abs(d))
    IN  IF n = 0 THEN <<0, 1>> ELSE <<(s * n) \div g, (s * d) \div g>>

Zero == Rat(0, 1)
One == Rat(1, 1)

\* Sums and comparisons go through the common denominator, products cancel
\* across before multiplying, so that intermediate values stay small.
RAdd(x, y) ==
    LET g == GCD(x[2], y[2])
    IN  Rat(x[1] * (y[2] \div g) + y[1] * (x[2] \div g), (x[2] \div g) * y[2])
RNeg(x) == <<0 - x[1], x[2]>>
RSub(x, y) == RAdd(x, RNeg(y))
RMul(x, y) ==
    LET g1 == GCD(Abs(x[1]), y[2])
        g2 == GCD(Abs(y[1]), x[2])
    IN  Rat((x[1] \div g1) * (y[1] \div g2), (x[2] \div g2) * (y[2] \div g1))
RDiv(x, y) == RMul(x, Rat(y[2], y[1]))
RLe(x, y) ==
    LET g == GCD(x[2], y[2])
    IN  x[1] * (y[2] \div g) <= y[1] * (x[2] \div g)
RLt(x, y) ==
    LET g == GCD(x[2], y[2])
    IN  x[1] * (y[2] \div g) < y[1] * (x[2] \div g)
RMin(x, y) == IF RLe(x, y) THEN x ELSE y
RMax(x, y) == IF RLe(x, y) THEN y ELSE x

\* a function or sequence with all its values computed (once)
Computed(f) == f @@ <<>>

\* max(...) over a non-empty sequence of rationals
RECURSIVE RMaxSeq(_)
RMaxSeq(s) == IF Len(s) = 1 THEN s[1] ELSE RMax(s[1], RMaxSeq(Tail(s)))

(***************************************************************************)
(* Strings.  A string is a sequence of characters.                         *)
(***************************************************************************)
S_run == <<"r", "u", "n">>
S_Runs == <<"R", "u", "n", "s">>
S_sun == <<"s", "u", "n">>
S_rung == <<"r", "u", "n", "g">>
S_runs == <<"r", "u", "n", "s">>
S_empty == <<>>

\* lower()
LowerChar(c) ==
    CASE c = "R" -> "r"
      [] c = "S" -> "s"
      [] c = "U" -> "u"
      [] c = "N" -> "n"
      [] OTHER -> c

Lower(s) == [i \in 1..Len(s) |-> LowerChar(s[i])]

\* unaccent(): strips the diacritic of a character ("e'" stands for e-acute)
UnaccentChar(c) ==
    CASE c = "e'" -> "e"
      [] c = "E'" -> "E"
      [] OTHER -> c

Unaccent(s) == [i \in 1..Len(s) |-> UnaccentChar(s[i])]

\* coalesce(x, '') of an optional string
Coalesce(o) == IF o = None THEN S_empty ELSE o[1]

\* the words of a text, split at spaces
RECURSIVE WordsFrom(_, _)
WordsFrom(s, cur) ==
    IF s = <<>> THEN (IF cur = <<>> THEN {} ELSE {cur})
    ELSE IF Head(s) = " "
         THEN (IF cur = <<>> THEN {} ELSE {cur}) \cup WordsFrom(Tail(s), <<>>)
         ELSE WordsFrom(Tail(s), Append(cur, Head(s)))

Words(s) == WordsFrom(s, <<>>)

\* the 'english' configuration's stemmer, as far as plurals: a final "s"
\* (not "ss") of a word longer than two characters is dropped
Stem(w) ==
    IF /\ Len(w) > 2
       /\ w[Len(w)] = "s"
       /\ w[Len(w) - 1] # "s"
    THEN SubSeq(w, 1, Len(w) - 1)
    ELSE w

\* to_tsvector('english', text): the set of lexemes (positions left out)
ToTsVectorEnglish(s) == {Stem(Lower(w)) : w \in Words(s)}

\* setweight(vector, label)
SetWeight(lexemes, label) == {<<l, label>> : l \in lexemes}

\* the SET expression of update_search_vector / update_all_search_vectors
ArticleTsVector(title, summary, content) ==
    SetWeight(ToTsVectorEnglish(Unaccent(Coalesce(Some(title)))), "A")
      \cup SetWeight(ToTsVectorEnglish(Unaccent(Coalesce(summary))), "B")
      \cup SetWeight(ToTsVectorEnglish(Unaccent(Coalesce(content))), "C")

(***************************************************************************)
(* Article.increment_view / Article.increment_like                         *)
(*                                                                         *)
(* Every request holds its own Article instance, loaded from the row at    *)
(* some earlier time, and issues one UPDATE ... RETURNING statement.  The  *)
(* statement reads and writes the stored row under the row lock, so it is  *)
(* one step.                                                               *)
(***************************************************************************)
Callers == 1..NumCallers

\* A variant that computes the new value from the instance's own attribute
\* (a read-then-write round trip) instead of from the stored row.
UpdateFromInstance(stored, loaded) == loaded + 1

\* "SET views = views + 1 ... RETURNING views" evaluated on the stored row
UpdateReturning(stored, loaded) == stored + 1

CounterStart ==
    /\ dbViews \in 0..MaxStored
    /\ dbLikes \in 0..MaxStored
    /\ counter0 = [views |-> dbViews, likes |-> dbLikes]
    /\ callers = [c \in Callers |->
                    [pc |-> "start", seenViews |-> 0, seenLikes |-> 0,
                     views |-> 0, likes |-> 0, kind |-> "none", ret |-> 0]]

\* the part at rest, in the specifications of the other parts
CounterIdle ==
    /\ dbViews = 0
    /\ dbLikes = 0
    /\ counter0 = [views |-> 0, likes |-> 0]
    /\ callers = <<>>

\* The request loads the article (session.get): the instance copies the row.
LoadArticle(c) ==
    /\ callers[c].pc = "start"
    /\ callers' = [callers EXCEPT ![c].pc = "loaded",
                                  ![c].seenViews = dbViews,
                                  ![c].seenLikes = dbLikes,
                                  ![c].views = dbViews,
                                  ![c].likes = dbLikes]
    /\ UNCHANGED <<dbViews, dbLikes, counter0, outsideCounter>>

IncrementView(c) ==
    /\ callers[c].pc = "loaded"
    /\ LET new_count == UpdateReturning(dbViews, callers[c].views)
       IN  /\ dbViews' = new_count
           /\ callers' = [callers EXCEPT ![c].pc = "done",
                                         ![c].kind = "view",
                                         ![c].views = new_count,
                                         ![c].ret = new_count]
    /\ UNCHANGED <<dbLikes, counter0, outsideCounter>>

IncrementLike(c) ==
    /\ callers[c].pc = "loaded"
    /\ LET new_count == UpdateReturning(dbLikes, callers[c].likes)
       IN  /\ dbLikes' = new_count
           /\ callers' = [callers EXCEPT ![c].pc = "done",
                                         ![c].kind = "like",
                                         ![c].likes = new_count,
                                         ![c].ret = new_count]
    /\ UNCHANGED <<dbViews, counter0, outsideCounter>>

CounterNext ==
    \/ \E c \in Callers : LoadArticle(c)
    \/ \E c \in Callers : IncrementView(c)
    \/ \E c \in Callers : IncrementLike(c)

(***************************************************************************)
(* Article text, versions and the search vector                            *)
(***************************************************************************)
Titles == {S_run, S_Runs, S_sun}
Summaries == {None, Some(S_run)}
Contents == {None, Some(S_sun)}

ContentStart ==
    /\ \E t \in Titles, s \in Summaries, c \in Contents :
          art = [title |-> t, summary |-> s, content |-> c,
                 search_vector |-> None, updated_at |-> None]
    /\ versions = <<>>
    /\ artOp = [op |-> "new", changed |-> FALSE, wasCurrent |-> FALSE]

ContentIdle ==
    /\ art = None
    /\ versions = <<>>
    /\ artOp = None

TextOf(a) == <<a.title, a.summary, a.content>>

VectorIsCurrent ==
    art.search_vector =
        Some(ArticleTsVector(art.title, art.summary, art.content))

\* the record of an operation: its name, whether it changed the text, and
\* whether the search vector was current when it began
Done(name, before, after) ==
    [op |-> name, changed |-> TextOf(after) # TextOf(before),
     wasCurrent |-> VectorIsCurrent]

\* assignment to the title, summary and content columns by a caller
SetText(t, s, c) ==
    /\ art' = [art EXCEPT !.title = t, !.summary = s, !.content = c]
    /\ artOp' = Done("set_text", art, art')
    /\ UNCHANGED <<versions, outsideContent>>

\* max(v.version_number for v in self.versions)
RECURSIVE MaxVersionNumber(_)
MaxVersionNumber(vs) ==
    IF Len(vs) = 1 THEN vs[1].version_number
    ELSE LET m == MaxVersionNumber(Tail(vs))
         IN  IF vs[1].version_number > m THEN vs[1].version_number ELSE m

NextVersion(vs) == IF vs = <<>> THEN 1 ELSE MaxVersionNumber(vs) + 1

\* Article.create_version, the returned row stored by the caller
CreateVersion ==
    /\ Len(versions) < MaxVersions
    /\ versions' = Append(versions,
                          [version_number |-> NextVersion(versions),
                           title |-> art.title,
                           content |-> art.content,
                           summary |-> art.summary])
    /\ artOp' = Done("create_version", art, art)
    /\ UNCHANGED <<art, outsideContent>>

\* the first version of the list with this number, 0 when there is none
FirstVersionIndex(vs, n) ==
    IF \E i \in 1..Len(vs) : vs[i].version_number = n
    THEN CHOOSE i \in 1..Len(vs) :
            /\ vs[i].version_number = n
            /\ \A j \in 1..(i - 1) : vs[j].version_number # n
    ELSE 0

\* the assignments of Article.restore_version
Restored(a, v) ==
    [a EXCEPT !.title = v.title, !.content = v.content, !.summary = v.summary,
              !.updated_at = Some("now")]

RestoreVersion(n) ==
    LET i == FirstVersionIndex(versions, n)
    IN  /\ i # 0
        /\ art' = Restored(art, versions[i])
        /\ artOp' = Done("restore_version", art, art')
        /\ UNCHANGED <<versions, outsideContent>>

\* restore_version of a number no stored version has: ValueError, no change
RestoreVersionNotFound(n) ==
    /\ FirstVersionIndex(versions, n) = 0
    /\ artOp' = Done("restore_version_error", art, art)
    /\ UNCHANGED <<art, versions, outsideContent>>

\* Article.update_search_vector / update_all_search_vectors
UpdateSearchVector ==
    /\ art' = [art EXCEPT !.search_vector =
                  Some(ArticleTsVector(art.title, art.summary, art.content))]
    /\ artOp' = Done("update_search_vector", art, art)
    /\ UNCHANGED <<versions, outsideContent>>

(***************************************************************************)
(* Concurrent requests that version one article.  Each request has its own *)
(* session and its own Article instance: it loads the article with its     *)
(* versions, then calls create_version on the instance and commits the     *)
(* returned row.  article_versions has no unique constraint on             *)
(* (article_id, version_number), so every commit succeeds.                 *)
(***************************************************************************)
VersioningStart ==
    /\ \E t \in Titles, s \in Summaries, c \in Contents :
          art = [title |-> t, summary |-> s, content |-> c,
                 search_vector |-> None, updated_at |-> None]
    /\ versions = <<>>
    /\ artOp = [op |-> "new", changed |-> FALSE, wasCurrent |-> FALSE]
    /\ callers = [c \in Callers |-> [pc |-> "start", versions |-> <<>>]]
    /\ dbViews = 0
    /\ dbLikes = 0
    /\ counter0 = [views |-> 0, likes |-> 0]

\* the request loads the article: its instance gets the stored versions
LoadArticleVersions(c) ==
    /\ callers[c].pc = "start"
    /\ callers' = [callers EXCEPT ![c] = [pc |-> "loaded", versions |-> versions]]
    /\ UNCHANGED <<dbViews, dbLikes, counter0, contentVars, searchVars, embedVars, accountVars>>

\* version = article.create_version(user_id); session.add(version);
\* await session.commit()
StoreCreatedVersion(c) ==
    /\ callers[c].pc = "loaded"
    /\ Len(versions) <= MaxVersions
    /\ versions' = Append(versions,
                          [version_number |-> NextVersion(callers[c].versions),
                           title |-> art.title,
                           content |-> art.content,
                           summary |-> art.summary])
    /\ callers' = [callers EXCEPT ![c].pc = "start"]
    /\ artOp' = Done("create_version", art, art)
    /\ UNCHANGED <<art, dbViews, dbLikes, counter0, searchVars, embedVars, accountVars>>

VersioningNext ==
    \/ \E c \in Callers : LoadArticleVersions(c)
    \/ \E c \in Callers : StoreCreatedVersion(c)

ContentNext ==
    \/ \E t \in Titles, s \in Summaries, c \in Contents : SetText(t, s, c)
    \/ CreateVersion
    \/ \E n \in 1..MaxVersions : RestoreVersion(n)
    \/ \E n \in 1..MaxVersions : RestoreVersionNotFound(n)
    \/ UpdateSearchVector

(***************************************************************************)
(* The stored articles the searches read.  A row of the articles table is  *)
(* a record; the table is a function from id to row.  Rows that compare    *)
(* equal under a statement's ORDER BY come out in id order.                *)
(***************************************************************************)
ArticleIds == 1..NumArticles

\* the moment of the request: func.now() / datetime.now(timezone.utc)
Now == 40 * SecondsPerDay

Row(i, t, s, p, f, e) ==
    [id |-> i, slug |-> <<Lower(t), i>>, title |-> t, summary |-> s,
     published_at |-> p, is_featured |-> f,
     search_vector |-> Some(ArticleTsVector(t, s, None)), embedding |-> e]

\* sequences in increasing order of the elements' keys (keys are distinct)
\* before[j, i] tells whether j comes strictly before i
SortedIds(ids, before) ==
    [k \in 1..Cardinality(ids) |->
        CHOOSE i \in ids : Cardinality({j \in ids : before[j, i]}) = k - 1]


\* s[offset + 1 .. offset + limit]: LIMIT / OFFSET, and Python's s[:limit]
Page(s, limit, offset) ==
    SubSeq(s, offset + 1, IF offset + limit < Len(s) THEN offset + limit ELSE Len(s))

\* A variant with PostgreSQL's default for DESC, NULLS FIRST.
PublishedBeforeNullsFirst(a, b) ==
    /\ b # None
    /\ (a = None \/ a[1] > b[1])

\* published_at DESC NULLS LAST: TRUE when a comes strictly before b
PublishedBefore(a, b) ==
    /\ a # None
    /\ (b = None \/ a[1] > b[1])

(***************************************************************************)
(* app/db/utils/search.py                                                  *)
(***************************************************************************)
\* websearch_to_tsquery('simple', unaccent(query)): the lowercased words,
\* all of which a matching vector must hold
WebsearchToTsquery(query) == {Lower(w) : w \in Words(Unaccent(query))}

\* search_vector @@ tsq
Matches(vector, tsq) ==
    /\ vector # None
    /\ tsq # {}
    /\ \A term \in tsq : \E e \in vector[1] : e[1] = term

\* the weight of a label in ts_rank_cd: {D, C, B, A} = {0.1, 0.2, 0.4, 1.0}
LabelWeight(label) ==
    CASE label = "A" -> Rat(10, 10)
      [] label = "B" -> Rat(4, 10)
      [] label = "C" -> Rat(2, 10)
      [] OTHER -> Rat(1, 10)

RECURSIVE SumWeights(_)
SumWeights(entries) ==
    IF entries = {} THEN Zero
    ELSE LET e == CHOOSE x \in entries : TRUE
         IN  RAdd(LabelWeight(e[2]), SumWeights(entries \ {e}))

\* _rank: ts_rank_cd(search_vector, tsq, 32), the weights of the matched
\* entries summed to r and normalised to r / (r + 1)
Rank(vector, tsq) ==
    IF vector = None THEN Zero
    ELSE LET r == SumWeights({e \in vector[1] : e[1] \in tsq})
         IN  RDiv(r, RAdd(r, One))

\* ts_headline('simple', text, tsq, 'StartSel=<b>,StopSel=</b>,...'): every
\* word whose lowercased form is a term of the query is wrapped
WrapWord(w, tsq) ==
    IF w # <<>> /\ Lower(w) \in tsq THEN <<"<b>">> \o w \o <<"</b>">> ELSE w

RECURSIVE HeadlineFrom(_, _, _)
HeadlineFrom(s, cur, tsq) ==
    IF s = <<>> THEN WrapWord(cur, tsq)
    ELSE IF Head(s) = " "
         THEN WrapWord(cur, tsq) \o <<" ">> \o HeadlineFrom(Tail(s), <<>>, tsq)
         ELSE HeadlineFrom(Tail(s), Append(cur, Head(s)), tsq)

TsHeadline(text, tsq) == HeadlineFrom(text, <<>>, tsq)

\* x ILIKE '%query%'
ILikeContains(text, query) ==
    /\ text # None
    /\ LET t == Lower(text[1])
           q == Lower(query)
       IN  \E i \in 0..(Len(t) - Len(q)) : SubSeq(t, i + 1, i + Len(q)) = q

\* pg_trgm: the trigrams of a word padded with two blanks before and one after
Trigrams(text) ==
    UNION {LET p == <<" ", " ">> \o Lower(w) \o <<" ">>
           IN  {SubSeq(p, i, i + 2) : i \in 1..(Len(p) - 2)} : w \in Words(text)}

\* similarity(a, b): shared trigrams over all trigrams
Similarity(a, b) ==
    LET ta == Trigrams(a)
        tb == Trigrams(b)
    IN  IF ta \cup tb = {} THEN Zero
        ELSE Rat(Cardinality(ta \cap tb), Cardinality(ta \cup tb))

FEATURED_BOOST == Rat(2, 10)

\* A variant without least and greatest.
RecencyPenaltyUnclamped(published_at) ==
    LET age == Now - (IF published_at = None THEN Now ELSE published_at[1])
    IN  Rat(age, SecondsPerDay)

\* least(1.0, greatest(0.0, extract(epoch from now() -
\*   coalesce(published_at, now())) / 86400.0))
RecencyPenalty(published_at) ==
    LET age == Now - (IF published_at = None THEN Now ELSE published_at[1])
    IN  RMin(One, RMax(Zero, Rat(age, SecondsPerDay)))

\* (1.0 - recency_penalty) * 0.15
TextRecencyBoost(published_at) ==
    RMul(RSub(One, RecencyPenalty(published_at)), Rat(15, 100))

\* case((is_featured, FEATURED_BOOST), else_=0.0)
TextFeaturedBoost(is_featured) == IF is_featured THEN FEATURED_BOOST ELSE Zero

\* rank + recency_boost + featured_boost; rank is the literal 0.0 without a query
TextScore(row, query) ==
    LET rank == IF query # None /\ query[1] # <<>>
                THEN Rank(row.search_vector, WebsearchToTsquery(query[1]))
                ELSE Zero
    IN  RAdd(RAdd(rank, TextRecencyBoost(row.published_at)),
             TextFeaturedBoost(row.is_featured))

\* The filters are a record of the keys the caller passed.
NoFilters == [x \in {} |-> TRUE]
HasKey(filters, k) == k \in DOMAIN filters

\* for k, v in filters.items(): if hasattr(cls, k) and v is not None:
\*     where.append(getattr(cls, k) == v)
EqualityFiltersPass(row, filters) ==
    \A k \in DOMAIN filters :
        (k \in DOMAIN row /\ filters[k] # None) => row[k] = filters[k][1]

\* published_at >= published_from, published_at < published_to (NULL fails)
RangeFiltersPass(row, filters) ==
    /\ HasKey(filters, "published_from") =>
          /\ row.published_at # None
          /\ filters.published_from # None
          /\ row.published_at[1] >= filters.published_from[1]
    /\ HasKey(filters, "published_to") =>
          /\ row.published_at # None
          /\ filters.published_to # None
          /\ row.published_at[1] < filters.published_to[1]

HasQuery(query) == query # None /\ query[1] # <<>>

\* the WHERE clause of the full-text statement q
TextWhere(row, query, filters) ==
    /\ HasQuery(query) =>
          Matches(row.search_vector, WebsearchToTsquery(query[1]))
    /\ EqualityFiltersPass(row, filters)
    /\ RangeFiltersPass(row, filters)

\* ORDER BY score DESC, published_at DESC NULLS LAST, for rows i and j with
\* the scores the statement computed
RowBefore(rows, score, i, j) ==
    \/ RLt(score[j], score[i])
    \/ /\ score[i] = score[j]
       /\ \/ PublishedBefore(rows[i].published_at, rows[j].published_at)
          \/ /\ rows[i].published_at = rows[j].published_at
             /\ i < j

\* the score column of the full-text statement q, per row
TextScores(rows, query) ==
    Computed([i \in DOMAIN rows |-> TextScore(rows[i], query)])

\* rows = (await session.execute(q)).all(): the ids, in order
TextRows(rows, query, filters, limit, offset) ==
    LET score == TextScores(rows, query)
        hit == {i \in DOMAIN rows : TextWhere(rows[i], query, filters)}
        Before(i, j) == RowBefore(rows, score, i, j)
    IN  Page(SortedIds(hit, [i \in hit, j \in hit |-> Before(i, j)]), limit, offset)

\* 0.7 * similarity(title, query) + 0.3 * similarity(coalesce(summary, ''), query)
FuzzyScore(row, query) ==
    RAdd(RMul(Similarity(row.title, query), Rat(7, 10)),
         RMul(Similarity(Coalesce(row.summary), query), Rat(3, 10)))

FuzzyScores(rows, query) ==
    Computed([i \in DOMAIN rows |-> FuzzyScore(rows[i], query)])

\* title ILIKE '%query%' OR summary ILIKE '%query%'
FuzzyWhere(row, query) ==
    \/ ILikeContains(Some(row.title), query)
    \/ ILikeContains(row.summary, query)

\* rows2 = (await session.execute(q2)).all(): the ids, in order
FuzzyRows(rows, query, limit, offset) ==
    LET score == FuzzyScores(rows, query)
        hit == {i \in DOMAIN rows : FuzzyWhere(rows[i], query)}
        Before(i, j) == RowBefore(rows, score, i, j)
    IN  Page(SortedIds(hit, [i \in hit, j \in hit |-> Before(i, j)]), limit, offset)

\* A variant that never falls back.
ReturnsTextRowsAlways(ids, query) == TRUE

\* if rows or not query: the rows of q are the answer
ReturnsTextRows(ids, query) == ids # <<>> \/ ~HasQuery(query)

\* A variant whose score leaves the rank out when highlighting is off.
TextItemRankIfHighlighted(row, query, highlight) ==
    LET hl == highlight /\ HasQuery(query)
        tsq == IF hl THEN WebsearchToTsquery(query[1]) ELSE {}
    IN  [id |-> row.id,
         slug |-> row.slug,
         title |-> IF hl THEN TsHeadline(Unaccent(row.title), tsq) ELSE row.title,
         summary |-> IF hl THEN Some(TsHeadline(Unaccent(Coalesce(row.summary)), tsq))
                     ELSE row.summary,
         published_at |-> row.published_at,
         is_featured |-> row.is_featured,
         score |-> IF hl THEN TextScore(row, query) ELSE TextScore(row, None)]

\* the dictionary built from a row of q
TextItem(row, query, highlight) ==
    LET hl == highlight /\ HasQuery(query)
        tsq == IF hl THEN WebsearchToTsquery(query[1]) ELSE {}
    IN  [id |-> row.id,
         slug |-> row.slug,
         title |-> IF hl THEN TsHeadline(Unaccent(row.title), tsq) ELSE row.title,
         summary |-> IF hl THEN Some(TsHeadline(Unaccent(Coalesce(row.summary)), tsq))
                     ELSE row.summary,
         published_at |-> row.published_at,
         is_featured |-> row.is_featured,
         score |-> TextScore(row, query)]

\* the dictionary built from a row of q2
FuzzyItem(row, query) ==
    [id |-> row.id,
     slug |-> row.slug,
     title |-> row.title,
     summary |-> row.summary,
     published_at |-> row.published_at,
     is_featured |-> row.is_featured,
     score |-> FuzzyScore(row, query)]

\* search_articles(session, query, filters, limit, offset, highlight)
SearchArticles(rows, query, filters, limit, offset, highlight) ==
    LET ids == TextRows(rows, query, filters, limit, offset)
    IN  IF ReturnsTextRows(ids, query)
        THEN [k \in 1..Len(ids) |-> TextItem(rows[ids[k]], query, highlight)]
        ELSE LET ids2 == FuzzyRows(rows, query[1], limit, offset)
             IN  [k \in 1..Len(ids2) |-> FuzzyItem(rows[ids2[k]], query[1])]

\* text LIKE pattern: "%" stands for any run of characters and "_" for any
\* one character (no pattern of the requests holds the escape character)
RECURSIVE LikeMatch(_, _)
LikeMatch(text, pattern) ==
    IF pattern = <<>> THEN text = <<>>
    ELSE IF Head(pattern) = "%"
         THEN \/ LikeMatch(text, Tail(pattern))
              \/ text # <<>> /\ LikeMatch(Tail(text), pattern)
         ELSE /\ text # <<>>
              /\ Head(pattern) = "_" \/ Head(pattern) = Head(text)
              /\ LikeMatch(Tail(text), Tail(pattern))

\* autocomplete_titles(session, prefix, limit): startswith() renders
\* lower(title) LIKE lower(prefix) || '%' with the prefix not escaped
AutocompleteTitles(rows, prefix, limit) ==
    LET hit == {i \in DOMAIN rows :
                   LikeMatch(Lower(rows[i].title), Lower(prefix) \o <<"%">>)}
        Before(i, j) ==
            \/ PublishedBefore(rows[i].published_at, rows[j].published_at)
            \/ rows[i].published_at = rows[j].published_at /\ i < j
        ids == Page(SortedIds(hit, [i \in hit, j \in hit |-> Before(i, j)]), limit, 0)
    IN  [k \in 1..Len(ids) |-> [slug |-> rows[ids[k]].slug, title |-> rows[ids[k]].title]]

(***************************************************************************)
(* app/db/utils/vector_search.py                                           *)
(*                                                                         *)
(* An embedding is a vector of two integers (for the 1536 floats).  The    *)
(* stored and query vectors are chosen with whole-number norms and         *)
(* distances, so that every distance is an exact rational.                 *)
(***************************************************************************)
Dot(u, v) == u[1] * v[1] + u[2] * v[2]

\* the square root of a perfect square
Sqrt(n) == CHOOSE r \in 0..n : r * r = n

Norm(u) == Sqrt(Dot(u, u))

\* pgvector's <=>: 1 - cosine similarity
CosineDistance(u, v) == RSub(One, Rat(Dot(u, v), Norm(u) * Norm(v)))

\* pgvector's <->: Euclidean distance
L2Distance(u, v) ==
    Rat(Sqrt((u[1] - v[1]) * (u[1] - v[1]) + (u[2] - v[2]) * (u[2] - v[2])), 1)

\* pgvector's <#>: the negated inner product
MaxInnerProduct(u, v) == Rat(0 - Dot(u, v), 1)

SupportedMetrics == {"cosine", "l2", "ip"}

\* distance_expr = distance_fn(Article.embedding, query_vec)
DistanceExpr(metric, embedding, query_vec) ==
    CASE metric = "cosine" -> CosineDistance(embedding, query_vec)
      [] metric = "l2" -> L2Distance(embedding, query_vec)
      [] metric = "ip" -> MaxInnerProduct(embedding, query_vec)

\* A variant that negates the distance for every metric.
OrderExprNegated(metric, distance) == RNeg(distance)

\* order_expr: func.negative(distance_expr) for "ip", else distance_expr
OrderExpr(metric, distance) ==
    IF metric = "ip" THEN RNeg(distance) ELSE distance

\* .where(Article.embedding.is_not(None)) and the equality filters
VectorWhere(row, filters) ==
    /\ row.embedding # None
    /\ EqualityFiltersPass(row, filters)

\* the distance column, per row with an embedding
Distances(rows, query_vec, metric) ==
    Computed([i \in DOMAIN rows |->
        IF rows[i].embedding = None THEN Zero
        ELSE DistanceExpr(metric, rows[i].embedding[1], query_vec)])

\* ORDER BY order_expr LIMIT limit: the ids, in order
VectorRows(rows, dist, limit, filters, metric) ==
    LET hit == {i \in DOMAIN rows : VectorWhere(rows[i], filters)}
        key == Computed([i \in DOMAIN rows |-> OrderExpr(metric, dist[i])])
        Before(i, j) == RLt(key[i], key[j]) \/ (key[i] = key[j] /\ i < j)
    IN  Page(SortedIds(hit, [i \in hit, j \in hit |-> Before(i, j)]), limit, 0)

\* A variant that runs the cosine query for a metric it does not know.
SearchByEmbeddingAnyMetric(rows, query_vec, limit, filters, metric) ==
    LET known == IF metric \in SupportedMetrics THEN metric ELSE "cosine"
        dist == Distances(rows, query_vec, known)
        ids == VectorRows(rows, dist, limit, filters, known)
    IN  [k \in 1..Len(ids) |-> [article |-> rows[ids[k]], distance |-> dist[ids[k]]]]

\* search_by_embedding(session, query_vec, limit, filters, distance_metric):
\* the (Article, distance) rows, or the ValueError of an unsupported metric
SearchByEmbedding(rows, query_vec, limit, filters, metric) ==
    IF metric \notin SupportedMetrics THEN <<[error |-> "ValueError"]>>
    ELSE LET dist == Distances(rows, query_vec, metric)
             ids == VectorRows(rows, dist, limit, filters, metric)
         IN  [k \in 1..Len(ids) |-> [article |-> rows[ids[k]], distance |-> dist[ids[k]]]]

\* A variant without the "or 1.0": the maximum itself, 1.0 for an empty list.
MaxOrZero(values) ==
    IF values = <<>> THEN One ELSE RMaxSeq(values)

\* max(...) or 1.0 over the values of a list, 1.0 for an empty list
MaxOrOne(values) ==
    IF values = <<>> THEN One
    ELSE LET m == RMaxSeq(values) IN IF m = Zero THEN One ELSE m

\* semantic_dicts: the semantic rows with their normalised scores
SemanticDicts(semantic_results) ==
    LET max_distance ==
            MaxOrOne([k \in 1..Len(semantic_results) |-> semantic_results[k].distance])
    IN  Computed([k \in 1..Len(semantic_results) |->
            LET a == semantic_results[k].article
            IN  [id |-> a.id, title |-> a.title, slug |-> a.slug,
                 summary |-> a.summary, published_at |-> a.published_at,
                 is_featured |-> a.is_featured,
                 semantic_score |->
                    RSub(One, RDiv(semantic_results[k].distance, max_distance))]])

\* A variant that weighs the text side with semantic_weight.
TextEntryWeighted(item, max_text_score, semantic_weight) ==
    LET normalized_text_score == RDiv(item.score, max_text_score)
    IN  [id |-> item.id, slug |-> item.slug, title |-> item.title,
         summary |-> item.summary, published_at |-> item.published_at,
         is_featured |-> item.is_featured, score |-> Some(item.score),
         semantic_score |-> None,
         text_score |-> normalized_text_score,
         combined_score |-> RMul(semantic_weight, normalized_text_score),
         recency_boost |-> None, featured_boost |-> None]

\* An entry of results_by_id.  A key the code leaves out is None here:
\* score (semantic-only entries), semantic_score (text-only entries),
\* recency_boost and featured_boost (entries the boost was not applied to).
TextEntry(item, max_text_score, semantic_weight) ==
    LET normalized_text_score == RDiv(item.score, max_text_score)
    IN  [id |-> item.id, slug |-> item.slug, title |-> item.title,
         summary |-> item.summary, published_at |-> item.published_at,
         is_featured |-> item.is_featured, score |-> Some(item.score),
         semantic_score |-> None,
         text_score |-> normalized_text_score,
         combined_score |-> RMul(RSub(One, semantic_weight), normalized_text_score),
         recency_boost |-> None, featured_boost |-> None]

SemanticEntry(item, semantic_weight) ==
    [id |-> item.id, slug |-> item.slug, title |-> item.title,
     summary |-> item.summary, published_at |-> item.published_at,
     is_featured |-> item.is_featured, score |-> None,
     semantic_score |-> Some(item.semantic_score),
     text_score |-> Zero,
     combined_score |-> RMul(semantic_weight, item.semantic_score),
     recency_boost |-> None, featured_boost |-> None]

\* the position of an id among the entries, 0 when it is not there
IndexOfId(entries, id) ==
    IF \E k \in 1..Len(entries) : entries[k].id = id
    THEN CHOOSE k \in 1..Len(entries) : entries[k].id = id
    ELSE 0

\* for item in semantic_dicts: merge into results_by_id (insertion order kept)
RECURSIVE MergeSemantic(_, _, _)
MergeSemantic(entries, semantic_dicts, semantic_weight) ==
    IF semantic_dicts = <<>> THEN entries
    ELSE LET item == Head(semantic_dicts)
             k == IndexOfId(entries, item.id)
             merged ==
                IF k # 0
                THEN [entries EXCEPT
                        ![k].semantic_score = Some(item.semantic_score),
                        ![k].combined_score =
                            RAdd(entries[k].combined_score,
                                 RMul(semantic_weight, item.semantic_score))]
                ELSE Append(entries, SemanticEntry(item, semantic_weight))
         IN  MergeSemantic(merged, Tail(semantic_dicts), semantic_weight)

\* results_by_id after both loops
Merged(text_results, semantic_results, semantic_weight) ==
    LET max_text_score ==
            MaxOrOne([k \in 1..Len(text_results) |-> text_results[k].score])
        entries == Computed([k \in 1..Len(text_results) |->
                      TextEntry(text_results[k], max_text_score, semantic_weight)])
    IN  MergeSemantic(entries, SemanticDicts(semantic_results), semantic_weight)

\* published_at > recent_threshold, with recent_threshold = now - 30 days
IsRecent(published_at) == published_at[1] > Now - RecentDays * SecondsPerDay

\* (now - published_at).days
DaysOld(published_at) == (Now - published_at[1]) \div SecondsPerDay

\* A variant that grows with the age instead of shrinking with it.
RecencyFactorByAge(published_at) ==
    RMul(RMax(Zero, Rat(DaysOld(published_at), RecentDays)), Rat(15, 100))

\* max(0, (30 - days_old) / 30) * 0.15
RecencyFactor(published_at) ==
    RMul(RMax(Zero, Rat(RecentDays - DaysOld(published_at), RecentDays)),
         Rat(15, 100))

\* A variant whose recency step skips the entries without a text hit.
WithRecencyBoostOfTextHits(item, recency_boost) ==
    IF recency_boost /\ item.score # None /\ item.published_at # None
                     /\ IsRecent(item.published_at)
    THEN LET recency_factor == RecencyFactor(item.published_at)
         IN  [item EXCEPT
                !.combined_score = RMul(item.combined_score, RAdd(One, recency_factor)),
                !.recency_boost = Some(recency_factor)]
    ELSE item

\* the recency step of the boost loop on one entry
WithRecencyBoost(item, recency_boost) ==
    IF recency_boost /\ item.published_at # None /\ IsRecent(item.published_at)
    THEN LET recency_factor == RecencyFactor(item.published_at)
         IN  [item EXCEPT
                !.combined_score = RMul(item.combined_score, RAdd(One, recency_factor)),
                !.recency_boost = Some(recency_factor)]
    ELSE item

\* A variant that boosts every entry, featured or not.
WithFeaturedBoostAlways(item, featured_boost) ==
    IF featured_boost
    THEN [item EXCEPT !.combined_score = RMul(item.combined_score, Rat(11, 10)),
                      !.featured_boost = Some(Rat(1, 10))]
    ELSE item

\* the featured step of the boost loop on one entry
WithFeaturedBoost(item, featured_boost) ==
    IF featured_boost /\ item.is_featured
    THEN [item EXCEPT !.combined_score = RMul(item.combined_score, Rat(11, 10)),
                      !.featured_boost = Some(Rat(1, 10))]
    ELSE item

Boosted(entries, recency_boost, featured_boost) ==
    Computed([k \in 1..Len(entries) |->
        WithFeaturedBoost(WithRecencyBoost(entries[k], recency_boost), featured_boost)])

\* A variant that sorts ascending.
SortAscending(entries) ==
    LET Before(i, j) ==
            \/ RLt(entries[i].combined_score, entries[j].combined_score)
            \/ (entries[i].combined_score = entries[j].combined_score /\ i < j)
        ids == 1..Len(entries)
        order == SortedIds(ids, [i \in ids, j \in ids |-> Before(i, j)])
    IN  [k \in 1..Len(entries) |-> entries[order[k]]]

\* results.sort(key=lambda x: x["combined_score"], reverse=True): stable
SortByCombinedScore(entries) ==
    LET Before(i, j) ==
            \/ RLt(entries[j].combined_score, entries[i].combined_score)
            \/ (entries[i].combined_score = entries[j].combined_score /\ i < j)
        ids == 1..Len(entries)
        order == SortedIds(ids, [i \in ids, j \in ids |-> Before(i, j)])
    IN  [k \in 1..Len(entries) |-> entries[order[k]]]

\* what a float division by 0.0 raises, as the caller sees it
ZeroDivisionError == <<[error |-> "ZeroDivisionError"]>>

\* float(distance) / max_distance or item.get("score", 0.0) / max_text_score
\* is evaluated with a divisor of 0.0
DividesByZero(text_results, semantic_results) ==
    \/ /\ semantic_results # <<>>
       /\ MaxOrOne([k \in 1..Len(semantic_results) |-> semantic_results[k].distance]) = Zero
    \/ /\ text_results # <<>>
       /\ MaxOrOne([k \in 1..Len(text_results) |-> text_results[k].score]) = Zero

\* results_by_id.values() once both merge loops have run, or the
\* ZeroDivisionError of a normalisation
HybridFused(rows, text_query, embedding_vector, limit, filters, semantic_weight) ==
    LET text_results ==
            Computed(SearchArticles(rows, text_query, filters, limit * 2, 0, TRUE))
        semantic_results ==
            Computed(SearchByEmbedding(rows, embedding_vector, limit * 2, filters,
                                       "cosine"))
    IN  IF DividesByZero(text_results, semantic_results) THEN ZeroDivisionError
        ELSE Computed(Merged(text_results, semantic_results, semantic_weight))

\* the local list "results" after the boost loop and the sort
HybridRanked(entries, recency_boost, featured_boost) ==
    Computed(SortByCombinedScore(Boosted(entries, recency_boost, featured_boost)))

\* update_all_search_vectors: every row's vector recomputed
WithVectors(rows) ==
    [i \in DOMAIN rows |->
        [rows[i] EXCEPT !.search_vector =
            Some(ArticleTsVector(rows[i].title, rows[i].summary, None))]]

\* rows whose vector was never computed (the column's default)
WithoutVectors(rows) ==
    [i \in DOMAIN rows |-> [rows[i] EXCEPT !.search_vector = None]]

NoCall == [fn |-> "none"]

SearchIdle ==
    /\ corpus = <<>>
    /\ call = NoCall
    /\ fused = <<>>
    /\ ranked = <<>>
    /\ result = <<>>
    /\ statements = 0

(***************************************************************************)
(* Text search: the requests and their inputs                              *)
(***************************************************************************)
TextTitles == {S_run, S_rung}
TextSummaries == {None, Some(S_Runs)}
TextTimes == {None, Some(Now - SecondsPerDay \div 3), Some(Now - 2 * SecondsPerDay)}
TextQueries == {None, Some(S_run), Some(S_runs)}
TextFilters ==
    {NoFilters,
     [is_featured |-> Some(TRUE)],
     [published_from |-> Some(Now - 2 * SecondsPerDay)],
     [published_to |-> Some(Now - 2 * SecondsPerDay)]}

TextStart ==
    /\ \E computed \in BOOLEAN :
       \E rows \in [ArticleIds ->
                      [title : TextTitles, summary : TextSummaries,
                       published_at : TextTimes, is_featured : BOOLEAN]] :
          LET table == [i \in ArticleIds |->
                          Row(i, rows[i].title, rows[i].summary,
                              rows[i].published_at, rows[i].is_featured, None)]
          IN  corpus = IF computed THEN table ELSE WithoutVectors(table)
    /\ call = NoCall
    /\ fused = <<>>
    /\ ranked = <<>>
    /\ result = <<>>
    /\ statements = 0

\* A variant that updates the vectors whatever the flag.
AfterUpdateVectorsAlways(rows, update_vectors) == WithVectors(rows)

\* if update_vectors: await cls.update_all_search_vectors(session)
AfterUpdateVectors(rows, update_vectors) ==
    IF update_vectors THEN WithVectors(rows) ELSE rows

\* the statements of search_articles after the optional update: q, and q2
\* when q returned no row for a query (no more matching rows than offset)
SearchStatements(rows, query, filters, offset) ==
    IF /\ HasQuery(query)
       /\ Cardinality({i \in DOMAIN rows : TextWhere(rows[i], query, filters)}) <= offset
    THEN 2 ELSE 1

\* await search_articles(session, query, filters, limit, offset, highlight,
\*                       update_vectors)
SearchArticlesCall(query, filters, limit, offset, highlight, update_vectors) ==
    /\ call = NoCall
    /\ corpus' = AfterUpdateVectors(corpus, update_vectors)
    /\ call' = [fn |-> "search_articles", query |-> query, filters |-> filters,
                limit |-> limit, offset |-> offset, highlight |-> highlight,
                update_vectors |-> update_vectors]
    /\ result' = SearchArticles(corpus', query, filters, limit, offset, highlight)
    /\ statements' = (IF update_vectors THEN 1 ELSE 0)
                         + SearchStatements(corpus', query, filters, offset)
    /\ UNCHANGED <<fused, ranked, outsideSearch>>

TextNext ==
    \/ \E query \in TextQueries, filters \in TextFilters,
          limit \in 1..MaxLimit, offset \in 0..MaxLimit - 1,
          highlight \in BOOLEAN, update_vectors \in BOOLEAN :
            SearchArticlesCall(query, filters, limit, offset, highlight,
                               update_vectors)

(***************************************************************************)
(* Vector search: the requests and their inputs                            *)
(***************************************************************************)
E1 == <<3, 4>>
E2 == <<-3, 4>>
E3 == <<3, -4>>
E4 == <<-3, -4>>
E5 == <<6, 8>>

\* the embedding of the query text
QueryVec == <<3, 4>>

VectorEmbeddings == {None, Some(E1), Some(E2), Some(E3), Some(E4), Some(E5)}
VectorMetrics == {"cosine", "l2", "ip", "manhattan"}
VectorFilters == {NoFilters, [is_featured |-> Some(TRUE)]}

VectorStart ==
    /\ \E rows \in [ArticleIds -> [embedding : VectorEmbeddings, is_featured : BOOLEAN]] :
          corpus = [i \in ArticleIds |->
                       Row(i, S_run, None, None, rows[i].is_featured, rows[i].embedding)]
    /\ call = NoCall
    /\ fused = <<>>
    /\ ranked = <<>>
    /\ result = <<>>
    /\ statements = 0

\* await search_by_embedding(session, query_vec, limit, filters, distance_metric)
SearchByEmbeddingCall(query_vec, limit, filters, distance_metric) ==
    /\ call = NoCall
    /\ call' = [fn |-> "search_by_embedding", query_vec |-> query_vec,
                limit |-> limit, filters |-> filters,
                distance_metric |-> distance_metric]
    /\ result' = SearchByEmbedding(corpus, query_vec, limit, filters, distance_metric)
    /\ statements' = (IF distance_metric \in SupportedMetrics THEN 1 ELSE 0)
    /\ UNCHANGED <<corpus, fused, ranked, outsideSearch>>

VectorNext ==
    \/ \E limit \in 1..MaxLimit, filters \in VectorFilters,
          distance_metric \in VectorMetrics :
            SearchByEmbeddingCall(QueryVec, limit, filters, distance_metric)

(***************************************************************************)
(* Hybrid search: the requests and their inputs                            *)
(***************************************************************************)
HybridTitles == {S_run, S_rung}
HybridTimes ==
    {None,
     Some(Now - SecondsPerDay \div 3),
     Some(Now - RecentDays * SecondsPerDay + SecondsPerDay \div 2),
     Some(Now - RecentDays * SecondsPerDay),
     Some(Now + SecondsPerDay)}
HybridEmbeddings == {None, Some(E1), Some(E2)}
SemanticWeights == {Zero, Rat(1, 2), One}

HybridStart ==
    /\ \E rows \in [ArticleIds ->
                      [title : HybridTitles, published_at : HybridTimes,
                       is_featured : BOOLEAN, embedding : HybridEmbeddings]] :
          corpus = [i \in ArticleIds |->
                       Row(i, rows[i].title, None, rows[i].published_at,
                           rows[i].is_featured, rows[i].embedding)]
    /\ call = NoCall
    /\ fused = <<>>
    /\ ranked = <<>>
    /\ result = <<>>
    /\ statements = 0

\* await hybrid_search(session, text_query, embedding_vector, limit, filters,
\*                     semantic_weight, recency_boost, featured_boost)
HybridSearchCall(text_query, embedding_vector, limit, filters, semantic_weight, recency_boost, featured_boost) ==
    /\ call = NoCall
    /\ call' = [fn |-> "hybrid_search", text_query |-> text_query,
                embedding_vector |-> embedding_vector, limit |-> limit,
                filters |-> filters, semantic_weight |-> semantic_weight,
                recency_boost |-> recency_boost, featured_boost |-> featured_boost]
    /\ LET entries == HybridFused(corpus, text_query, embedding_vector, limit,
                                  filters, semantic_weight)
       IN  IF entries = ZeroDivisionError
           THEN /\ fused' = <<>>
                /\ ranked' = <<>>
                /\ result' = ZeroDivisionError
           ELSE /\ fused' = entries
                /\ ranked' = HybridRanked(entries, recency_boost, featured_boost)
                /\ result' = Page(ranked', limit, 0)
    /\ statements' = SearchStatements(corpus, text_query, filters, 0) + 1
    /\ UNCHANGED <<corpus, outsideSearch>>

HybridNext ==
    \/ \E limit \in 1..MaxLimit, semantic_weight \in SemanticWeights,
          recency_boost \in BOOLEAN, featured_boost \in BOOLEAN :
            HybridSearchCall(Some(S_run), QueryVec, limit, NoFilters,
                             semantic_weight, recency_boost, featured_boost)

(***************************************************************************)
(* Hybrid search before the boosts: the requests and their inputs          *)
(***************************************************************************)
FusionStart ==
    /\ \E rows \in [ArticleIds ->
                      [title : {S_run, S_sun},
                       published_at : {Some(Now - SecondsPerDay \div 3),
                                       Some(Now - RecentDays * SecondsPerDay)},
                       is_featured : BOOLEAN,
                       embedding : {None, Some(E1), Some(E2), Some(E3)}]] :
          corpus = [i \in ArticleIds |->
                       Row(i, rows[i].title, None, rows[i].published_at,
                           rows[i].is_featured, rows[i].embedding)]
    /\ call = NoCall
    /\ fused = <<>>
    /\ ranked = <<>>
    /\ result = <<>>
    /\ statements = 0

FusionNext ==
    \/ \E text_query \in {Some(S_run), Some(S_empty)}, limit \in 1..MaxLimit,
          semantic_weight \in SemanticWeights :
            HybridSearchCall(text_query, QueryVec, limit, NoFilters,
                             semantic_weight, FALSE, FALSE)

(***************************************************************************)
(* Listings: full-text pages and title autocomplete on one table           *)
(***************************************************************************)
ListingStart ==
    /\ \E rows \in [ArticleIds ->
                      [title : {S_run, S_Runs, S_rung},
                       published_at : {None, Some(Now), Some(Now + SecondsPerDay),
                                       Some(Now - SecondsPerDay \div 3),
                                       Some(Now - 2 * SecondsPerDay)},
                       is_featured : BOOLEAN]] :
          corpus = [i \in ArticleIds |->
                       Row(i, rows[i].title, None, rows[i].published_at,
                           rows[i].is_featured, None)]
    /\ call = NoCall
    /\ fused = <<>>
    /\ ranked = <<>>
    /\ result = <<>>
    /\ statements = 0

\* await autocomplete_titles(session, prefix, limit)
AutocompleteTitlesCall(prefix, limit) ==
    /\ call = NoCall
    /\ call' = [fn |-> "autocomplete_titles", prefix |-> prefix, limit |-> limit]
    /\ result' = AutocompleteTitles(corpus, prefix, limit)
    /\ statements' = 1
    /\ UNCHANGED <<corpus, fused, ranked, outsideSearch>>

ListingNext ==
    \/ \E query \in {None, Some(S_run)}, limit \in 1..MaxLimit, offset \in 0..MaxLimit - 1 :
            SearchArticlesCall(query, NoFilters, limit, offset, FALSE, FALSE)
    \/ \E prefix \in {S_run, <<"R", "u">>, <<"r", "_">>}, limit \in 1..MaxLimit :
            AutocompleteTitlesCall(prefix, limit)

(***************************************************************************)
(* The status helpers of one Article instance.                             *)
(***************************************************************************)
\* a new article: status draft, no published_at, no scheduled_at
LifecycleStart ==
    /\ \E t \in Titles, s \in Summaries, c \in Contents :
          art = [title |-> t, summary |-> s, content |-> c,
                 search_vector |-> None, updated_at |-> None,
                 status |-> "draft", published_at |-> None, scheduled_at |-> None]
    /\ versions = <<>>
    /\ artOp = [op |-> "new", changed |-> FALSE, wasCurrent |-> FALSE]

\* Article.publish()
Publish ==
    /\ art' = [art EXCEPT !.status = "published", !.published_at = Some(Now)]
    /\ artOp' = Done("publish", art, art')
    /\ UNCHANGED <<versions, outsideContent>>

\* Article.schedule(scheduled_time)
Schedule(scheduled_time) ==
    /\ art' = [art EXCEPT !.status = "scheduled", !.scheduled_at = Some(scheduled_time)]
    /\ artOp' = Done("schedule", art, art')
    /\ UNCHANGED <<versions, outsideContent>>

\* Article.draft()
Draft ==
    /\ art' = [art EXCEPT !.status = "draft", !.published_at = None,
                          !.scheduled_at = None]
    /\ artOp' = Done("draft", art, art')
    /\ UNCHANGED <<versions, outsideContent>>

LifecycleNext ==
    \/ Publish
    \/ \E scheduled_time \in {Now + SecondsPerDay, Now + 2 * SecondsPerDay, Now + 7 * SecondsPerDay} :
            Schedule(scheduled_time)
    \/ Draft

(***************************************************************************)
(* The searches as readers of the table, with hybrid_search taken one      *)
(* await at a time: the locals text_results and semantic_results are       *)
(* fields of the call, None until the awaited sub-search has returned.     *)
(***************************************************************************)
ReadsStart ==
    /\ \E rows \in [ArticleIds -> [title : {S_run, S_rung}, embedding : {None, Some(E1), Some(E2)}]],
          current \in BOOLEAN :
          LET stored == [i \in ArticleIds |->
                            Row(i, rows[i].title, None, None, FALSE, rows[i].embedding)]
          IN  corpus = IF current THEN stored ELSE WithoutVectors(stored)
    /\ call = NoCall
    /\ fused = <<>>
    /\ ranked = <<>>
    /\ result = <<>>
    /\ statements = 0

\* hybrid_search is entered: nothing awaited yet
HybridSearchEntered(text_query, embedding_vector, limit, filters, semantic_weight, recency_boost, featured_boost) ==
    /\ call = NoCall
    /\ call' = [fn |-> "hybrid_search", text_query |-> text_query,
                embedding_vector |-> embedding_vector, limit |-> limit,
                filters |-> filters, semantic_weight |-> semantic_weight,
                recency_boost |-> recency_boost, featured_boost |-> featured_boost,
                pc |-> "text", text_results |-> None, semantic_results |-> None]
    /\ UNCHANGED <<corpus, fused, ranked, result, statements, outsideSearch>>

\* text_results = await search_articles(session, query=text_query,
\*     filters=filters, limit=limit * 2, highlight=True)
HybridTextReturned ==
    /\ call.fn = "hybrid_search" /\ "pc" \in DOMAIN call /\ call.pc = "text"
    /\ call' = [call EXCEPT
                  !.pc = "semantic",
                  !.text_results =
                      Some(SearchArticles(corpus, call.text_query, call.filters,
                                          call.limit * 2, 0, TRUE))]
    /\ statements' = statements
                         + SearchStatements(corpus, call.text_query, call.filters, 0)
    /\ UNCHANGED <<corpus, fused, ranked, result, outsideSearch>>

\* semantic_results = await search_by_embedding(session,
\*     query_vec=embedding_vector, limit=limit * 2, filters=filters)
HybridSemanticReturned ==
    /\ call.fn = "hybrid_search" /\ "pc" \in DOMAIN call /\ call.pc = "semantic"
    /\ call' = [call EXCEPT
                  !.pc = "merge",
                  !.semantic_results =
                      Some(SearchByEmbedding(corpus, call.embedding_vector,
                                             call.limit * 2, call.filters, "cosine"))]
    /\ statements' = statements + 1
    /\ UNCHANGED <<corpus, fused, ranked, result, outsideSearch>>

\* the rest of hybrid_search: normalisation, the two merge loops, the boost
\* loop, the sort and the slice
HybridMerged ==
    /\ call.fn = "hybrid_search" /\ "pc" \in DOMAIN call /\ call.pc = "merge"
    /\ call' = [call EXCEPT !.pc = "done"]
    /\ LET text_results == call.text_results[1]
           semantic_results == call.semantic_results[1]
       IN  IF DividesByZero(text_results, semantic_results)
           THEN /\ fused' = <<>>
                /\ ranked' = <<>>
                /\ result' = ZeroDivisionError
           ELSE /\ fused' = Computed(Merged(text_results, semantic_results,
                                            call.semantic_weight))
                /\ ranked' = HybridRanked(fused', call.recency_boost, call.featured_boost)
                /\ result' = Page(ranked', call.limit, 0)
    /\ UNCHANGED <<corpus, statements, outsideSearch>>

ReadsNext ==
    \/ \E limit \in 1..MaxLimit, highlight \in BOOLEAN, update_vectors \in BOOLEAN :
            SearchArticlesCall(Some(S_run), NoFilters, limit, 0, highlight, update_vectors)
    \/ \E limit \in 1..MaxLimit, distance_metric \in VectorMetrics :
            SearchByEmbeddingCall(QueryVec, limit, NoFilters, distance_metric)
    \/ \E prefix \in {S_run, <<"r", "_">>}, limit \in 1..MaxLimit :
            AutocompleteTitlesCall(prefix, limit)
    \/ \E limit \in 1..MaxLimit, semantic_weight \in SemanticWeights :
            HybridSearchEntered(Some(S_run), QueryVec, limit, NoFilters,
                                semantic_weight, TRUE, TRUE)
    \/ HybridTextReturned
    \/ HybridSemanticReturned
    \/ HybridMerged

(***************************************************************************)
(* Embeddings (app/db/utils/embeddings.py).  The provider's answer to a    *)
(* request is an input of the call that sends it: a timeout, or a status   *)
(* with a body that is JSON or not.  The texts of the model are shorter    *)
(* than the 8000 characters generate_embedding truncates at.               *)
(***************************************************************************)
maxsize == 100
MaxRequests == 2

Raised(name) == [raised |-> name]
Returned(value) == [returned |-> value]

\* the part at rest, in the specifications of the other parts
EmbedIdle ==
    /\ apiKey = S_empty
    /\ cache = <<>>
    /\ requests = 0

\* A variant that never finds the key missing.
KeyMissingNever(api_key) == FALSE

\* if not api_key:
KeyMissing(api_key) == api_key = S_empty

\* response.raise_for_status(); data = response.json();
\* return data["data"][0]["embedding"], any exception raised as ValueError
Parsed(response) ==
    IF response.timeout \/ response.status >= 400 \/ response.json = None
    THEN Raised("ValueError")
    ELSE LET data == response.json[1]
         IN  IF "data" \notin DOMAIN data THEN Raised("ValueError")
             ELSE IF data.data = <<>> THEN Raised("ValueError")
             ELSE IF "embedding" \notin DOMAIN data.data[1] THEN Raised("ValueError")
             ELSE Returned(data.data[1].embedding)

\* generate_embedding(text, api_key=api_key): what it raises or returns, and
\* whether it sent a request
GenerateEmbedding(text, api_key, response) ==
    LET key == IF api_key # None /\ api_key[1] # S_empty THEN api_key[1] ELSE apiKey
    IN  IF KeyMissing(key)
        THEN [sent |-> FALSE, outcome |-> Raised("ValueError")]
        ELSE [sent |-> TRUE, outcome |-> Parsed(response)]

\* A variant of the cache that never drops an entry.
RememberAll(entries, text, vector) == Append(entries, <<text, vector>>)

\* lru_cache(maxsize=100) storing a result: the oldest entry goes when full
Remember(entries, text, vector) ==
    LET grown == Append(entries, <<text, vector>>)
    IN  IF Len(grown) > maxsize THEN Tail(grown) ELSE grown

\* the position of the entry of this text, 0 when there is none
CachePosition(entries, text) ==
    IF \E k \in 1..Len(entries) : entries[k][1] = text
    THEN CHOOSE k \in 1..Len(entries) : entries[k][1] = text
    ELSE 0

\* lru_cache on a hit: the entry becomes the most recently used
Touched(entries, k) ==
    SubSeq(entries, 1, k - 1) \o SubSeq(entries, k + 1, Len(entries)) \o <<entries[k]>>

\* get_cached_embedding(text): a hit returns the stored vector; a miss runs
\* loop.run_until_complete(generate_embedding(text)), which raises
\* RuntimeError when the caller is itself running in an event loop, and
\* stores only a returned vector.
GetCachedEmbedding(text, in_loop, response) ==
    LET k == CachePosition(cache, text)
        made == GenerateEmbedding(text, None, response)
    IN  IF k > 0
        THEN [sent |-> FALSE, outcome |-> Returned(cache[k][2]), entries |-> Touched(cache, k)]
        ELSE IF in_loop
        THEN [sent |-> FALSE, outcome |-> Raised("RuntimeError"), entries |-> cache]
        ELSE IF "raised" \in DOMAIN made.outcome
        THEN [sent |-> made.sent, outcome |-> made.outcome, entries |-> cache]
        ELSE [sent |-> made.sent, outcome |-> made.outcome,
              entries |-> Remember(cache, text, made.outcome.returned)]

\* embedding = get_cached_embedding(text) if use_cache
\*             else await generate_embedding(text), inside a coroutine
EmbeddingFor(text, use_cache, response) ==
    IF use_cache THEN GetCachedEmbedding(text, TRUE, response)
    ELSE GenerateEmbedding(text, None, response) @@ [entries |-> cache]

\* f"{article.title}\n\n{article.summary or ''}\n\n{article.content or ''}"
TextToEmbed(article) ==
    article.title \o <<"\n", "\n">> \o Coalesce(article.summary)
        \o <<"\n", "\n">> \o Coalesce(article.content)

\* await generate_embedding(text, api_key=api_key)
GenerateEmbeddingCall(text, api_key, response) ==
    /\ LET made == GenerateEmbedding(text, api_key, response)
       IN  /\ call' = [fn |-> "generate_embedding", text |-> text,
                       api_key |-> api_key, response |-> response]
           /\ result' = made.outcome
           /\ requests' = IF made.sent THEN requests + 1 ELSE requests
           /\ requests' <= MaxRequests
    /\ statements' = 0
    /\ UNCHANGED <<corpus, fused, ranked, apiKey, cache, counterVars, contentVars, accountVars>>

\* get_cached_embedding(text), called where no event loop is running
GetCachedEmbeddingCall(text, response) ==
    /\ LET got == GetCachedEmbedding(text, FALSE, response)
       IN  /\ call' = [fn |-> "get_cached_embedding", text |-> text,
                       response |-> response]
           /\ result' = got.outcome
           /\ cache' = got.entries
           /\ requests' = IF got.sent THEN requests + 1 ELSE requests
           /\ requests' <= MaxRequests
    /\ statements' = 0
    /\ UNCHANGED <<corpus, fused, ranked, apiKey, counterVars, contentVars, accountVars>>

\* await update_article_embedding(session, article, use_cache)
UpdateArticleEmbeddingCall(id, use_cache, response) ==
    /\ LET got == EmbeddingFor(TextToEmbed(corpus[id]), use_cache, response)
       IN  /\ call' = [fn |-> "update_article_embedding", id |-> id,
                       use_cache |-> use_cache, response |-> response]
           /\ cache' = got.entries
           /\ requests' = IF got.sent THEN requests + 1 ELSE requests
           /\ requests' <= MaxRequests
           /\ IF "raised" \in DOMAIN got.outcome
              THEN /\ corpus' = corpus
                   /\ result' = got.outcome
              ELSE /\ corpus' = [corpus EXCEPT ![id].embedding = Some(got.outcome.returned)]
                   /\ result' = Returned(corpus'[id])
    /\ statements' = 0
    /\ UNCHANGED <<fused, ranked, apiKey, counterVars, contentVars, accountVars>>

\* the statement of find_similar_articles; the session flushes the changed
\* articles first, and pgvector refuses a vector of another dimension
SimilarRows(rows, query_embedding, limit, filters) ==
    IF \/ Len(query_embedding) # Len(QueryVec)
       \/ \E i \in DOMAIN rows :
             rows[i].embedding # None /\ Len(rows[i].embedding[1]) # Len(QueryVec)
    THEN Raised("DBAPIError")
    ELSE LET found == SearchByEmbedding(rows, query_embedding, limit, filters, "cosine")
         IN  Returned([k \in 1..Len(found) |->
                 [id |-> found[k].article.id, title |-> found[k].article.title,
                  slug |-> found[k].article.slug, summary |-> found[k].article.summary,
                  published_at |-> found[k].article.published_at,
                  similarity |-> RSub(One, found[k].distance)]])

\* await find_similar_articles(session, query_text, limit, filters, use_cache)
FindSimilarArticlesCall(query_text, limit, filters, use_cache, response) ==
    /\ LET got == EmbeddingFor(query_text, use_cache, response)
       IN  /\ call' = [fn |-> "find_similar_articles", query_text |-> query_text,
                       limit |-> limit, filters |-> filters,
                       use_cache |-> use_cache, response |-> response]
           /\ cache' = got.entries
           /\ requests' = IF got.sent THEN requests + 1 ELSE requests
           /\ requests' <= MaxRequests
           /\ result' = IF "raised" \in DOMAIN got.outcome THEN got.outcome
                        ELSE SimilarRows(corpus, got.outcome.returned, limit, filters)
           /\ statements' = IF "raised" \in DOMAIN got.outcome THEN 0 ELSE 1
    /\ UNCHANGED <<corpus, fused, ranked, apiKey, counterVars, contentVars, accountVars>>

\* what the provider may answer
ProviderResponses ==
    {[timeout |-> TRUE, status |-> 0, json |-> None],
     [timeout |-> FALSE, status |-> 500, json |-> Some([error |-> "server"])],
     [timeout |-> FALSE, status |-> 200, json |-> None],
     [timeout |-> FALSE, status |-> 200, json |-> Some([error |-> "none"])],
     [timeout |-> FALSE, status |-> 200, json |-> Some([data |-> <<[embedding |-> E1]>>])],
     [timeout |-> FALSE, status |-> 200, json |-> Some([data |-> <<[embedding |-> E2]>>])],
     [timeout |-> FALSE, status |-> 200, json |-> Some([data |-> <<[embedding |-> <<>>]>>])]}

\* the text of an earlier call, one per number below 100
FillerText(n) ==
    LET digit == <<"0", "1", "2", "3", "4", "5", "6", "7", "8", "9">>
    IN  <<"#", digit[(n \div 10) + 1], digit[(n % 10) + 1]>>

\* The cache is empty, or earlier calls have filled it up to its last free
\* place; without a key no call can have stored a vector.
EmbedStart ==
    /\ apiKey \in {S_empty, <<"s", "k">>}
    /\ \E filled \in {0, maxsize - 1} :
          /\ apiKey = S_empty => filled = 0
          /\ cache = [k \in 1..filled |-> <<FillerText(k - 1), E1>>]
    /\ requests = 0
    /\ \E stored \in {None, Some(E3)} :
          corpus = [i \in ArticleIds |->
                       Row(i, S_run, None, None, FALSE, IF i = 1 THEN stored ELSE Some(E1))
                           @@ [content |-> None]]
    /\ call = NoCall
    /\ fused = <<>>
    /\ ranked = <<>>
    /\ result = <<>>
    /\ statements = 0

EmbedNext ==
    \/ \E text \in {S_run}, api_key \in {None, Some(<<"s", "k">>)},
          response \in ProviderResponses :
            GenerateEmbeddingCall(text, api_key, response)
    \/ \E text \in {S_run, <<"R", "u", "n">>, FillerText(0)},
          response \in ProviderResponses :
            GetCachedEmbeddingCall(text, response)
    \/ \E id \in {1}, use_cache \in BOOLEAN, response \in ProviderResponses :
            UpdateArticleEmbeddingCall(id, use_cache, response)
    \/ \E query_text \in {S_run}, limit \in {MaxLimit}, use_cache \in BOOLEAN,
          response \in ProviderResponses :
            FindSimilarArticlesCall(query_text, limit, NoFilters, use_cache, response)

(***************************************************************************)
(* Specifications                                                          *)
(***************************************************************************)
CounterInit == CounterStart /\ ContentIdle /\ SearchIdle /\ EmbedIdle /\ AccountIdle
SpecCounter == CounterInit /\ [][CounterNext]_vars

ContentInit == ContentStart /\ CounterIdle /\ SearchIdle /\ EmbedIdle /\ AccountIdle
SpecContent == ContentInit /\ [][ContentNext]_vars

TextInit == TextStart /\ CounterIdle /\ ContentIdle /\ EmbedIdle /\ AccountIdle
SpecText == TextInit /\ [][TextNext]_vars

VectorInit == VectorStart /\ CounterIdle /\ ContentIdle /\ EmbedIdle /\ AccountIdle
SpecVector == VectorInit /\ [][VectorNext]_vars

HybridInit == HybridStart /\ CounterIdle /\ ContentIdle /\ EmbedIdle /\ AccountIdle
SpecHybrid == HybridInit /\ [][HybridNext]_vars

ListingInit == ListingStart /\ CounterIdle /\ ContentIdle /\ EmbedIdle /\ AccountIdle
SpecListing == ListingInit /\ [][ListingNext]_vars

FusionInit == FusionStart /\ CounterIdle /\ ContentIdle /\ EmbedIdle /\ AccountIdle
SpecFusion == FusionInit /\ [][FusionNext]_vars

VersioningInit == VersioningStart /\ SearchIdle /\ EmbedIdle /\ AccountIdle
SpecVersioning == VersioningInit /\ [][VersioningNext]_vars

LifecycleInit == LifecycleStart /\ CounterIdle /\ SearchIdle /\ EmbedIdle /\ AccountIdle
SpecLifecycle == LifecycleInit /\ [][LifecycleNext]_vars

ReadsInit == ReadsStart /\ CounterIdle /\ ContentIdle /\ EmbedIdle /\ AccountIdle
SpecReads == ReadsInit /\ [][ReadsNext]_vars

EmbedInit == EmbedStart /\ CounterIdle /\ ContentIdle /\ AccountIdle
SpecEmbed == EmbedInit /\ [][EmbedNext]_vars

(***************************************************************************)
(* Counters                                                                *)
(***************************************************************************)
DoneCalls(kind) == {c \in Callers : callers[c].pc = "done" /\ callers[c].kind = kind}

\* C1: no increment is lost.  At every moment the stored counter is its
\* initial value plus the number of completed calls (so plus N once all N
\* calls have completed), every completed call returned a value its own
\* increment produced (between initial + 1 and the stored value, and the one
\* its instance now holds), and no two calls on the same counter returned
\* the same value.
C1_NoLostUpdate ==
    /\ dbViews = counter0.views + Cardinality(DoneCalls("view"))
    /\ dbLikes = counter0.likes + Cardinality(DoneCalls("like"))
    /\ \A c \in DoneCalls("view") :
          /\ callers[c].ret \in (counter0.views + 1)..dbViews
          /\ callers[c].views = callers[c].ret
    /\ \A c \in DoneCalls("like") :
          /\ callers[c].ret \in (counter0.likes + 1)..dbLikes
          /\ callers[c].likes = callers[c].ret
    /\ \A c1, c2 \in Callers :
          /\ c1 # c2
          /\ callers[c1].pc = "done"
          /\ callers[c2].pc = "done"
          /\ callers[c1].kind = callers[c2].kind
          => callers[c1].ret # callers[c2].ret

\* All calls have completed, all on the view counter, and every request had
\* loaded the article before any of them incremented it: the interleaving in
\* which a read-then-write would lose updates.
C1_Witness ==
    /\ \A c \in Callers : callers[c].pc = "done" /\ callers[c].kind = "view"
    /\ \A c \in Callers : callers[c].seenViews = counter0.views
    /\ dbViews = counter0.views + NumCallers

(***************************************************************************)
(* Search vector                                                           *)
(***************************************************************************)
\* C2: after an operation that changed the article's title, summary or
\* content (restore_version included) has completed, search_vector is the
\* vector derived from the current title, summary and content.  Stated for
\* restore_version on an article whose vector was current when it began.
C2_VectorRecomputedAfterRestore ==
    (artOp.op = "restore_version" /\ artOp.changed /\ artOp.wasCurrent)
        => VectorIsCurrent

(***************************************************************************)
(* Hybrid search against its parts                                         *)
(***************************************************************************)
IsHybrid == call.fn = "hybrid_search"

\* the ids of a list of result dictionaries, in order
IdsOf(items) == [k \in 1..Len(items) |-> items[k].id]

\* the text-only ranking of the request, truncated to limit
TextOnlyIds ==
    IdsOf(SearchArticles(corpus, call.text_query, call.filters, call.limit, 0, TRUE))

\* the semantic-only ranking of the request (ascending distance), truncated
\* to limit
SemanticOnlyIds ==
    LET rows == SearchByEmbedding(corpus, call.embedding_vector, call.limit,
                                  call.filters, "cosine")
    IN  [k \in 1..Len(rows) |-> rows[k].article.id]

BoostsOff == ~call.recency_boost /\ ~call.featured_boost

\* C3: hybrid_search with semantic_weight = 0 returns exactly the articles
\* of the text-only ranking truncated to limit, in the same order.  Stated
\* for requests with both boosts disabled, where nothing but the fusion
\* orders the list.
C3_WeightZeroIsTextOnly ==
    (IsHybrid /\ call.semantic_weight = Zero /\ BoostsOff)
        => IdsOf(result) = TextOnlyIds

\* C4: hybrid_search with semantic_weight = 1 returns exactly the articles
\* of the semantic-only ranking (ascending distance) truncated to limit, in
\* the same order.  Stated for requests with both boosts disabled.
C4_WeightOneIsSemanticOnly ==
    (IsHybrid /\ call.semantic_weight = One /\ BoostsOff)
        => IdsOf(result) = SemanticOnlyIds

(***************************************************************************)
(* Vector search                                                           *)
(***************************************************************************)
\* C5: with distance_metric = "ip" the rows come in descending inner-product
\* order: no row has a smaller inner product with the query vector than the
\* row after it.
C5_InnerProductDescending ==
    (call.fn = "search_by_embedding" /\ call.distance_metric = "ip")
        => \A k \in 1..(Len(result) - 1) :
              Dot(result[k].article.embedding[1], call.query_vec)
                >= Dot(result[k + 1].article.embedding[1], call.query_vec)

(***************************************************************************)
(* Text search                                                             *)
(***************************************************************************)
IsTextSearch == call.fn = "search_articles"

\* the same request with the highlight flag flipped, on the same corpus
OtherHighlight ==
    Computed(SearchArticles(corpus, call.query, call.filters, call.limit,
                            call.offset, ~call.highlight))

\* the rows of the executed full-text statement q of the request
FullTextIds ==
    TextRows(corpus, call.query, call.filters, call.limit, call.offset)

\* C6: highlight = False and highlight = True return the same sequence of
\* (id, slug) pairs and the same scores.
C6_HighlightKeepsRanking ==
    IsTextSearch =>
        LET other == OtherHighlight
        IN  /\ Len(other) = Len(result)
            /\ \A k \in 1..Len(result) :
                  /\ other[k].id = result[k].id
                  /\ other[k].slug = result[k].slug
                  /\ other[k].score = result[k].score

\* A full-text answer of two rows of different scores in which highlighting
\* rewrote a title.
C6_Witness ==
    /\ IsTextSearch
    /\ HasQuery(call.query)
    /\ Len(result) = 2
    /\ FullTextIds # <<>>
    /\ LET other == OtherHighlight
       IN  \E k \in 1..Len(result) : other[k].title # result[k].title
    /\ result[1].score # result[2].score

\* the rows of the fuzzy statement q2 of the request, as dictionaries
FuzzyAnswer ==
    LET ids2 == FuzzyRows(corpus, call.query[1], call.limit, call.offset)
    IN  [k \in 1..Len(ids2) |-> FuzzyItem(corpus[ids2[k]], call.query[1])]

\* the given rows of the full-text statement q, as dictionaries
FullTextAnswer(ids) ==
    [k \in 1..Len(ids) |-> TextItem(corpus[ids[k]], call.query, call.highlight)]

\* C7: with a non-empty query and zero full-text rows the returned list is
\* the fuzzy fallback's, ordered by non-increasing fuzzy score; with at least
\* one full-text row, or without a query, the returned list is the full-text
\* statement's; in both cases a list is returned.
C7_FuzzyFallback ==
    IsTextSearch =>
        LET ids == FullTextIds
        IN  IF HasQuery(call.query) /\ ids = <<>>
            THEN /\ result = FuzzyAnswer
                 /\ \A k \in 1..(Len(result) - 1) :
                       RLe(result[k + 1].score, result[k].score)
            ELSE result = FullTextAnswer(ids)

\* The fallback answered with two rows of different fuzzy scores.
C7_Witness ==
    /\ IsTextSearch
    /\ HasQuery(call.query)
    /\ FullTextIds = <<>>
    /\ Len(result) = 2
    /\ RLt(result[2].score, result[1].score)

(***************************************************************************)
(* Hybrid search: boosts and the returned list                             *)
(***************************************************************************)
\* the entry of an article before the boost loop
FusedOf(id) == fused[IndexOfId(fused, id)]

\* the recency factor the boost loop applied to an entry (0 when none)
RecencyOf(e) == IF e.recency_boost = None THEN Zero ELSE e.recency_boost[1]

\* the multiplier of the featured step on an entry
FeaturedMultiplierOf(e) == IF e.featured_boost = None THEN One ELSE Rat(11, 10)

\* an article's age in seconds
AgeOf(e) == Now - e.published_at[1]

Dated(e) == e.published_at # None

\* C8: with recency_boost enabled the recency factor of a candidate is zero
\* (the recency step leaves combined_score unchanged) when the article was
\* published 30 or more days ago, strictly positive when it was published
\* today, and non-increasing in the age for ages between 0 and 30 days.
C8_RecencyFactor ==
    (IsHybrid /\ call.recency_boost) =>
        /\ \A k \in 1..Len(ranked) :
              LET e == ranked[k] IN
              /\ (Dated(e) /\ AgeOf(e) >= RecentDays * SecondsPerDay) =>
                    /\ RecencyOf(e) = Zero
                    /\ e.combined_score =
                          RMul(FusedOf(e.id).combined_score, FeaturedMultiplierOf(e))
              /\ (Dated(e) /\ AgeOf(e) >= 0 /\ AgeOf(e) < SecondsPerDay) =>
                    /\ RLt(Zero, RecencyOf(e))
                    /\ e.combined_score =
                          RMul(RMul(FusedOf(e.id).combined_score,
                                    RAdd(One, RecencyOf(e))),
                               FeaturedMultiplierOf(e))
        /\ \A k1, k2 \in 1..Len(ranked) :
              LET e1 == ranked[k1]
                  e2 == ranked[k2]
              IN  (/\ Dated(e1) /\ Dated(e2)
                   /\ 0 <= AgeOf(e1) /\ AgeOf(e1) <= AgeOf(e2)
                   /\ AgeOf(e2) <= RecentDays * SecondsPerDay)
                      => RLe(RecencyOf(e2), RecencyOf(e1))

\* One candidate published today and one published 29 and a half days ago,
\* both with a positive score before the boosts.
C8_Witness ==
    /\ IsHybrid
    /\ call.recency_boost
    /\ \E k1, k2 \in 1..Len(ranked) :
          /\ Dated(ranked[k1]) /\ Dated(ranked[k2])
          /\ AgeOf(ranked[k1]) = SecondsPerDay \div 3
          /\ AgeOf(ranked[k2]) = RecentDays * SecondsPerDay - SecondsPerDay \div 2
          /\ RLt(Zero, FusedOf(ranked[k1].id).combined_score)
          /\ RLt(Zero, FusedOf(ranked[k2].id).combined_score)
          /\ RLt(RecencyOf(ranked[k2]), RecencyOf(ranked[k1]))

\* C9: with featured_boost enabled the featured step multiplies a featured
\* candidate's combined_score by exactly 1.1 and leaves a candidate that is
\* not featured unchanged; with featured_boost disabled it changes no score.
C9_FeaturedBoost ==
    IsHybrid =>
        \A k \in 1..Len(ranked) :
            LET e == ranked[k]
                afterRecency ==
                    RMul(FusedOf(e.id).combined_score, RAdd(One, RecencyOf(e)))
            IN  IF call.featured_boost /\ e.is_featured
                THEN e.combined_score = RMul(afterRecency, Rat(11, 10))
                ELSE e.combined_score = afterRecency

\* A featured and a non-featured candidate, both with a positive score, in a
\* request with featured_boost enabled.
C9_Witness ==
    /\ IsHybrid
    /\ call.featured_boost
    /\ \E k1, k2 \in 1..Len(ranked) :
          /\ ranked[k1].is_featured
          /\ ~ranked[k2].is_featured
          /\ RLt(Zero, ranked[k1].combined_score)
          /\ RLt(Zero, ranked[k2].combined_score)

\* C10: the returned list has at most limit entries, holds each article id
\* at most once, is sorted by non-increasing combined_score, and every entry
\* the truncation dropped has a combined_score no greater than that of every
\* returned entry.
C10_BoundedUniqueSorted ==
    IsHybrid =>
        /\ Len(result) <= call.limit
        /\ \A k1, k2 \in 1..Len(result) :
              result[k1].id = result[k2].id => k1 = k2
        /\ \A k \in 1..(Len(result) - 1) :
              RLe(result[k + 1].combined_score, result[k].combined_score)
        /\ \A d \in (Len(result) + 1)..Len(ranked), k \in 1..Len(result) :
              RLe(ranked[d].combined_score, result[k].combined_score)

\* An article found by both searches and merged into one entry, a second
\* candidate of a strictly smaller score, and a limit that drops it.
C10_Witness ==
    /\ IsHybrid
    /\ Len(ranked) = 2
    /\ Len(result) = 1
    /\ result[1].score # None
    /\ result[1].semantic_score # None
    /\ RLt(ranked[2].combined_score, result[1].combined_score)

(***************************************************************************)
(* Hybrid search: the combined score and its normalisation                 *)
(***************************************************************************)
\* the request's text candidates, as hybrid_search fetches them
TextCandidates ==
    Computed(SearchArticles(corpus, call.text_query, call.filters, call.limit * 2, 0, TRUE))

\* the request's semantic candidates, as hybrid_search fetches them
SemanticCandidates ==
    Computed(SearchByEmbedding(corpus, call.embedding_vector, call.limit * 2, call.filters, "cosine"))

\* the largest of a set of values, 1 when there is none or it is 0
LargestOrOne(values) ==
    IF values = {} THEN One
    ELSE LET m == CHOOSE x \in values : \A y \in values : RLe(y, x)
         IN  IF m = Zero THEN One ELSE m

\* an article's text score over the largest text score, 0 off the text set
NormalizedTextOf(id) ==
    LET t == TextCandidates
        hit == {k \in 1..Len(t) : t[k].id = id}
    IN  IF hit = {} THEN Zero
        ELSE RDiv(t[CHOOSE k \in hit : TRUE].score,
                  LargestOrOne({t[k].score : k \in 1..Len(t)}))

\* 1 - an article's distance over the largest distance, 0 off the semantic set
NormalizedSemanticOf(id) ==
    LET m == SemanticCandidates
        hit == {k \in 1..Len(m) : m[k].article.id = id}
    IN  IF hit = {} THEN Zero
        ELSE RSub(One, RDiv(m[CHOOSE k \in hit : TRUE].distance,
                            LargestOrOne({m[k].distance : k \in 1..Len(m)})))

\* C11: for each article of the text set, the semantic set or both, and for
\* no other, the combined score before the boosts is
\* (1 - semantic_weight) x normalized_text_score
\*   + semantic_weight x normalized_semantic_score, a missing side being 0.
C11_CombinedScore ==
    (IsHybrid /\ result # ZeroDivisionError) =>
        /\ {fused[k].id : k \in 1..Len(fused)}
             = {TextCandidates[k].id : k \in 1..Len(TextCandidates)}
               \cup {SemanticCandidates[k].article.id : k \in 1..Len(SemanticCandidates)}
        /\ \A k \in 1..Len(fused) :
              fused[k].combined_score =
                  RAdd(RMul(RSub(One, call.semantic_weight), NormalizedTextOf(fused[k].id)),
                       RMul(call.semantic_weight, NormalizedSemanticOf(fused[k].id)))

\* An even blend in which one article is on both sides with positive parts
\* and another is on the semantic side only.
C11_Witness ==
    /\ IsHybrid
    /\ call.semantic_weight = Rat(1, 2)
    /\ Len(fused) = 2
    /\ \E k1, k2 \in 1..Len(fused) :
          /\ fused[k1].score # None
          /\ fused[k1].semantic_score # None
          /\ RLt(Zero, NormalizedTextOf(fused[k1].id))
          /\ RLt(Zero, NormalizedSemanticOf(fused[k1].id))
          /\ fused[k2].score = None
          /\ RLt(Zero, fused[k1].combined_score)

\* C12: hybrid_search never divides by zero when it normalises: with an
\* empty set, or a set whose scores or distances are all zero, the divisor
\* is 1.0, so no request ends in a ZeroDivisionError.
C12_NoDivisionByZero ==
    IsHybrid =>
        /\ result # ZeroDivisionError
        /\ \A k \in 1..Len(result) : result[k].id \in ArticleIds

\* Text hits whose scores are all zero and semantic hits whose distances are
\* all zero, and a list returned.
C12_Witness ==
    /\ IsHybrid
    /\ TextCandidates # <<>>
    /\ SemanticCandidates # <<>>
    /\ \A k \in 1..Len(TextCandidates) : TextCandidates[k].score = Zero
    /\ \A k \in 1..Len(SemanticCandidates) : SemanticCandidates[k].distance = Zero
    /\ Len(result) >= 1
    /\ result # ZeroDivisionError

(***************************************************************************)
(* Text search: filters, order and score                                   *)
(***************************************************************************)
\* the stored row of a returned dictionary
RowOf(item) == corpus[item.id]

\* C13: every article search_articles returns, on the full-text path and on
\* the fuzzy fallback path alike, satisfies every supplied equality filter
\* and the range filters: published_at >= published_from and
\* published_at < published_to.
C13_FiltersOnEveryPath ==
    IsTextSearch =>
        \A k \in 1..Len(result) :
            LET row == RowOf(result[k])
                f == call.filters
            IN  /\ ("is_featured" \in DOMAIN f /\ f.is_featured # None)
                      => row.is_featured = f.is_featured[1]
                /\ "published_from" \in DOMAIN f
                      => /\ row.published_at # None
                         /\ row.published_at[1] >= f.published_from[1]
                /\ "published_to" \in DOMAIN f
                      => /\ row.published_at # None
                         /\ row.published_at[1] < f.published_to[1]

\* the request's answer came from the full-text statement q
OnFullTextPath == IsTextSearch /\ (HasQuery(call.query) => FullTextIds # <<>>)

\* the rows that satisfy the WHERE clause of the request's statement q
FullTextHits ==
    {i \in ArticleIds : TextWhere(corpus[i], call.query, call.filters)}

\* row i comes strictly before row j: by score descending, then by
\* published_at descending with null last
StrictlyBefore(i, j) ==
    LET si == TextScore(corpus[i], call.query)
        sj == TextScore(corpus[j], call.query)
        pi == corpus[i].published_at
        pj == corpus[j].published_at
    IN  \/ RLt(sj, si)
        \/ /\ si = sj
           /\ pi # None
           /\ (pj = None \/ pi[1] > pj[1])

\* C14: the full-text path returns its rows ordered by score descending,
\* rows of equal score by published_at descending with null last, and the
\* rows returned are positions offset .. offset + limit - 1 of that order.
C14_OrderAndPage ==
    OnFullTextPath =>
        LET hits == FullTextHits
            n == Cardinality(hits)
            id == IdsOf(result)
        IN  /\ Len(result) =
                  IF n <= call.offset THEN 0
                  ELSE IF n - call.offset < call.limit THEN n - call.offset
                  ELSE call.limit
            /\ \A k \in 1..Len(result) :
                  /\ id[k] \in hits
                  /\ result[k].score = TextScore(corpus[id[k]], call.query)
                  /\ Cardinality({i \in hits : StrictlyBefore(i, id[k])})
                        <= call.offset + k - 1
                  /\ Cardinality({i \in hits : StrictlyBefore(id[k], i)})
                        <= n - (call.offset + k)
            /\ \A k1, k2 \in 1..Len(result) : id[k1] = id[k2] => k1 = k2
            /\ \A k \in 1..(Len(result) - 1) : ~StrictlyBefore(id[k + 1], id[k])

\* Two rows of equal score, the second stored first: one dated before one
\* without a date.
C14_Witness ==
    /\ OnFullTextPath
    /\ Len(result) = 2
    /\ result[1].score = result[2].score
    /\ result[1].published_at # None
    /\ result[2].published_at = None
    /\ result[2].id < result[1].id

\* C15: for every row of the full-text path, score = rank + recency_boost
\* + featured_boost, where featured_boost is 0.2 for a featured article and
\* 0 otherwise, and recency_boost = (1 - min(1, max(0, age))) x 0.15 lies in
\* [0, 0.15], age being the days since published_at, 0 when it is null.
C15_ScoreFormula ==
    OnFullTextPath =>
        \A k \in 1..Len(result) :
            LET row == RowOf(result[k])
                age == IF row.published_at = None THEN Zero
                       ELSE Rat(Now - row.published_at[1], SecondsPerDay)
                clamped == IF RLt(age, Zero) THEN Zero
                           ELSE IF RLt(One, age) THEN One ELSE age
                recency_boost == RMul(RSub(One, clamped), Rat(15, 100))
                featured_boost == IF row.is_featured THEN Rat(2, 10) ELSE Zero
                rank == IF HasQuery(call.query)
                        THEN Rank(row.search_vector, WebsearchToTsquery(call.query[1]))
                        ELSE Zero
            IN  /\ RLe(Zero, recency_boost)
                /\ RLe(recency_boost, Rat(15, 100))
                /\ RLe(Zero, RSub(RSub(result[k].score, rank), featured_boost))
                /\ RLe(RSub(RSub(result[k].score, rank), featured_boost), Rat(15, 100))
                /\ result[k].score = RAdd(RAdd(rank, recency_boost), featured_boost)

\* A featured row dated in the future beside a row two days old without
\* the featured flag, both matching the query.
C15_Witness ==
    /\ OnFullTextPath
    /\ HasQuery(call.query)
    /\ Len(result) = 2
    /\ \E k1, k2 \in 1..2 :
          /\ result[k1].is_featured
          /\ result[k1].published_at = Some(Now + SecondsPerDay)
          /\ ~result[k2].is_featured
          /\ result[k2].published_at = Some(Now - 2 * SecondsPerDay)
          /\ RLt(result[k2].score, result[k1].score)

(***************************************************************************)
(* Title autocomplete                                                      *)
(***************************************************************************)
\* the first characters of a text are those of a prefix
StartsWith(text, prefix) ==
    /\ Len(prefix) <= Len(text)
    /\ SubSeq(text, 1, Len(prefix)) = prefix

\* C17: autocomplete_titles returns at most limit (slug, title) pairs, every
\* returned title starts with the prefix when both are lowercased, and the
\* pairs are ordered by published_at descending with null last.
C17_Autocomplete ==
    call.fn = "autocomplete_titles" =>
        /\ Len(result) <= call.limit
        /\ \A k \in 1..Len(result) :
              StartsWith(Lower(result[k].title), Lower(call.prefix))
        /\ \A k \in 1..(Len(result) - 1) :
              LET p == corpus[result[k].slug[2]].published_at
                  q == corpus[result[k + 1].slug[2]].published_at
              IN  ~(q # None /\ (p = None \/ q[1] > p[1]))

(***************************************************************************)
(* Vector search: cosine and l2                                            *)
(***************************************************************************)
\* the articles a vector search may return: embedding not null, equality
\* filters satisfied
Eligible ==
    {i \in ArticleIds :
        /\ corpus[i].embedding # None
        /\ \A key \in DOMAIN call.filters :
              (key \in DOMAIN corpus[i] /\ call.filters[key] # None)
                  => corpus[i][key] = call.filters[key][1]}

\* the raw distance of a stored embedding from the request's query vector
RawDistance(i) ==
    IF call.distance_metric = "cosine"
    THEN CosineDistance(corpus[i].embedding[1], call.query_vec)
    ELSE L2Distance(corpus[i].embedding[1], call.query_vec)

CallsWithoutKey ==
    /\ apiKey = S_empty
    /\ call'.fn \in {"generate_embedding", "update_article_embedding",
                     "find_similar_articles"}
    /\ call'.fn = "generate_embedding" => call'.api_key = None

WellFormed(payload) ==
    /\ payload # None
    /\ "data" \in DOMAIN payload[1]
    /\ payload[1].data # <<>>
    /\ "embedding" \in DOMAIN payload[1].data[1]
    /\ Len(payload[1].data[1].embedding) = Len(QueryVec)

\* the provider call timed out, answered non-2xx, or returned a malformed payload
ProviderFailed(response) ==
    \/ response.timeout
    \/ response.status \notin 200..299
    \/ ~WellFormed(response.json)

\* C19: every call of generate_embedding ends in one of two outcomes: it
\* returns the vector of a successful provider response, or it raises
\* ValueError when the provider call times out, answers non-2xx or returns a
\* malformed payload; it never returns an empty or partial vector, and when
\* it fails update_article_embedding leaves article.embedding unchanged.
C19_VectorOrValueError ==
    [][/\ call'.fn = "generate_embedding" =>
             IF ProviderFailed(call'.response)
             THEN result' = Raised("ValueError")
             ELSE \/ result' = Raised("ValueError")
                  \/ result' = Returned(call'.response.json[1].data[1].embedding)
       /\ (call'.fn = "update_article_embedding" /\ ~call'.use_cache
              /\ ProviderFailed(call'.response)) =>
             /\ result' = Raised("ValueError")
             /\ corpus' = corpus]_vars

(***************************************************************************)
(* Embeddings: the cache                                                   *)
(***************************************************************************)
\* the places of the cache that hold exactly this text
PlacesOf(text) == {k \in 1..Len(cache) : cache[k][1] = text}

\* C20: after any sequence of get_cached_embedding calls the cache holds at
\* most 100 entries, one per exact input text; a call whose text is cached
\* returns the stored vector and sends nothing to the provider, and a call
\* whose exact text is not cached asks the provider and stores what it returns
\* under that text.
C20_BoundedExactCache ==
    /\ [](/\ Len(cache) <= 100
          /\ Cardinality({cache[k][1] : k \in 1..Len(cache)}) = Len(cache))
    /\ [][call'.fn = "get_cached_embedding" =>
             IF PlacesOf(call'.text) # {}
             THEN /\ \A k \in PlacesOf(call'.text) : result' = Returned(cache[k][2])
                  /\ requests' = requests
             ELSE /\ apiKey # S_empty => requests' = requests + 1
                  /\ "returned" \in DOMAIN result' =>
                        cache'[Len(cache')] = <<call'.text, result'.returned>>]_vars

\* The cache is full and has dropped its oldest text; "run" was stored with
\* one vector, and a later call for "run" got that vector although the
\* provider would have answered with another.
C20_Witness ==
    /\ Len(cache) = 100
    /\ cache[1][1] # FillerText(0)
    /\ call.fn = "get_cached_embedding"
    /\ call.text = S_run
    /\ call.response.json = Some([data |-> <<[embedding |-> E1]>>])
    /\ result = Returned(E2)
    /\ requests = MaxRequests

(***************************************************************************)
(* Hybrid search: the boosts whatever the origin of a candidate            *)
(***************************************************************************)
\* a featured candidate published today, found by the vector search alone
\* with a normalised semantic score of 1
FreshSemanticOnly(e) ==
    /\ e.is_featured
    /\ Dated(e) /\ AgeOf(e) >= 0 /\ AgeOf(e) < SecondsPerDay
    /\ e.score = None
    /\ e.semantic_score = Some(One)

\* a candidate that is not featured, 30 days old or older, with a normalised
\* text score of 1 and a normalised semantic score of 0
OldTextHit(e) ==
    /\ ~e.is_featured
    /\ Dated(e) /\ AgeOf(e) >= RecentDays * SecondsPerDay
    /\ e.score # None
    /\ e.text_score = One
    /\ e.semantic_score \in {None, Some(Zero)}

\* C21: hybrid_search applies the recency and the featured multiplier to
\* every merged candidate, whether it came from the text set, the semantic set
\* or both; a candidate of the semantic set alone has text_score 0.  With
\* semantic_weight 0.5 and both boosts enabled, a featured article published
\* today with semantic score 1 and no text hit ranks before a non-featured
\* article 30 days old or older with text score 1 and semantic score 0.
C21_BoostsWhateverTheOrigin ==
    IsHybrid =>
        /\ \A k \in 1..Len(ranked) :
              LET e == ranked[k] IN
              /\ e.score = None => e.text_score = Zero
              /\ e.score # None \/ e.semantic_score # None
              /\ e.recency_boost # None <=>
                    (/\ call.recency_boost
                     /\ Dated(e)
                     /\ AgeOf(e) < RecentDays * SecondsPerDay)
              /\ e.featured_boost # None <=> (call.featured_boost /\ e.is_featured)
              /\ e.combined_score =
                    RMul(RMul(FusedOf(e.id).combined_score, RAdd(One, RecencyOf(e))),
                         FeaturedMultiplierOf(e))
        /\ (call.semantic_weight = Rat(1, 2) /\ call.recency_boost /\ call.featured_boost) =>
              \A a, b \in 1..Len(ranked) :
                  (FreshSemanticOnly(ranked[a]) /\ OldTextHit(ranked[b])) => a < b

\* The request of the example: the fresh featured article found by the
\* vector search alone comes first, the old text hit second, although the
\* two had the same score before the boosts.
C21_Witness ==
    /\ IsHybrid
    /\ call.semantic_weight = Rat(1, 2)
    /\ call.recency_boost /\ call.featured_boost
    /\ Len(ranked) = 2
    /\ FreshSemanticOnly(ranked[1])
    /\ OldTextHit(ranked[2])
    /\ ranked[2].semantic_score = Some(Zero)
    /\ FusedOf(ranked[1].id).combined_score = FusedOf(ranked[2].id).combined_score
    /\ RecencyOf(ranked[1]) = Rat(15, 100)
    /\ ranked[1].featured_boost # None

(***************************************************************************)
(* The searches only read                                                  *)
(***************************************************************************)
\* the step belongs to a search that was not asked to update the vectors
ReadingStep ==
    \/ call'.fn = "search_articles" /\ ~call'.update_vectors
    \/ call'.fn \in {"search_by_embedding", "hybrid_search", "autocomplete_titles"}

\* the step writes what hybrid_search computes from its two result lists
MergingStep ==
    /\ call'.fn = "hybrid_search"
    /\ fused' # fused \/ ranked' # ranked \/ result' # result

\* C22: search_articles with update_vectors=False, search_by_embedding,
\* hybrid_search and autocomplete_titles leave the stored articles unchanged,
\* and hybrid_search merges only after both the text sub-search and the
\* vector sub-search have returned.
C22_SearchesOnlyRead ==
    [][/\ ReadingStep => corpus' = corpus
       /\ MergingStep => (call.text_results # None /\ call.semantic_results # None)]_vars

\* hybrid_search has merged two lists that had both come back, over a table
\* whose search vectors are still the missing ones it started with.
C22_Witness ==
    /\ call.fn = "hybrid_search"
    /\ call.pc = "done"
    /\ call.text_results # None /\ call.text_results[1] # <<>>
    /\ call.semantic_results # None /\ call.semantic_results[1] # <<>>
    /\ Len(fused) = 2
    /\ \A i \in ArticleIds : corpus[i].search_vector = None

(***************************************************************************)
(* Vector search: an unknown metric                                        *)
(***************************************************************************)
\* C23: search_by_embedding called with a distance_metric other than cosine,
\* l2 or ip raises ValueError, and its session has executed no statement.
C23_UnknownMetricRaises ==
    (call.fn = "search_by_embedding"
        /\ call.distance_metric \notin {"cosine", "l2", "ip"}) =>
            /\ result = <<[error |-> "ValueError"]>>
            /\ statements = 0

\* A request with the metric "manhattan" over a table in which every article
\* has an embedding and would have been found.
C23_Witness ==
    /\ call.fn = "search_by_embedding"
    /\ call.distance_metric = "manhattan"
    /\ \A i \in ArticleIds : corpus[i].embedding # None
    /\ result = <<[error |-> "ValueError"]>>
    /\ statements = 0

(***************************************************************************)
(* Text search: the pages of a query that has matches                      *)
(***************************************************************************)
\* C24: for a query with at least one full-text match under the filters,
\* every page of search_articles holds only articles that match the
\* full-text query, and a page whose offset is at or past the number of
\* matches is empty.
C24_PagesOfMatches ==
    (IsTextSearch /\ HasQuery(call.query) /\ FullTextHits # {}) =>
        /\ \A k \in 1..Len(result) : result[k].id \in FullTextHits
        /\ call.offset >= Cardinality(FullTextHits) => result = <<>>

(***************************************************************************)
(* Hybrid search: the range of the recency factor                          *)
(***************************************************************************)
\* C25: for every candidate of hybrid_search and every published_at (null
\* and a time later than now included) the recorded recency_boost lies in
\* [0, 0.15], and the recency step multiplies combined_score by a factor in
\* [1, 1.15].
C25_RecencyFactorRange ==
    IsHybrid =>
        \A k \in 1..Len(ranked) :
            LET e == ranked[k] IN
            /\ RLe(Zero, RecencyOf(e))
            /\ RLe(RecencyOf(e), Rat(15, 100))
            /\ e.combined_score =
                  RMul(RMul(FusedOf(e.id).combined_score, RAdd(One, RecencyOf(e))),
                       FeaturedMultiplierOf(e))

(***************************************************************************)
(* Versions: numbers under concurrent requests                             *)
(***************************************************************************)
\* C26: after any interleaving of requests that call create_version on one
\* article and store the returned version, no two stored versions have the
\* same version_number, and each new version_number is one more than the
\* largest stored one (1 when there is none).
C26_VersionNumbersUnique ==
    /\ [](\A i, j \in 1..Len(versions) :
             versions[i].version_number = versions[j].version_number => i = j)
    /\ [][Len(versions') = Len(versions) + 1 =>
             versions'[Len(versions')].version_number = NextVersion(versions)]_vars

(***************************************************************************)
(* Status and its timestamps                                               *)
(***************************************************************************)
\* C27: starting from a new article, after any sequence of publish(),
\* schedule(t) and draft() calls, published_at is non-null if and only if
\* status is published, and scheduled_at is non-null if and only if status
\* is scheduled.
C27_TimestampsFollowStatus ==
    /\ art.published_at # None <=> art.status = "published"
    /\ art.scheduled_at # None <=> art.status = "scheduled"

(***************************************************************************)
(* Accounts: app/db/models/user.py, app/api/v1/auth, app/api/v1/user        *)
(***************************************************************************)
MaxUsers == 2
MaxTokens == 3

Emails == {"a@x.io", "b@x.io"}
Passwords == {"password1", "password2"}

\* A request and its outcome: the function called, the token it was given
\* or returned (0: none), the row it found (0: none) and what it returned,
\* "True"/"False" for a bool, the status code for an HTTPException.
Request(op, token, row, returned) == [op |-> op, token |-> token, row |-> row, returned |-> returned]

\* User.hash_password and User.verify_password: bcrypt, whose check succeeds
\* on exactly the password that was hashed.
hash_password(password) == [bcrypt |-> password]
verify_password(user, password) == user.password = hash_password(password)

\* select(User).where(User.email == email) ... .first(): the id, 0 for None
UserByEmail(email) == LET ids == {i \in 1..Len(users) : users[i].email = email} IN IF ids = {} THEN 0 ELSE CHOOSE i \in ids : \A j \in ids : i <= j

\* select(User).where(User.verification_token == token) ... .first()
UserByToken(token) == LET ids == {i \in 1..Len(users) : users[i].verification_token = Some(token)} IN IF ids = {} THEN 0 ELSE CHOOSE i \in ids : \A j \in ids : i <= j

\* User.generate_verification_token: secrets.token_urlsafe(32), a value no
\* earlier call returned; the tokens are numbered in the order of issue.
generate_verification_token == Len(issued) + 1

Issue(by, id) == Append(issued, [by |-> by, user |-> id, accepted |-> 0])

Accept(token) == [issued EXCEPT ![token].accepted = @ + 1]

\* User.verify_user
verify_user(user) == [user EXCEPT !.is_verified = TRUE, !.verification_token = None]

AuthStart ==
    /\ users = <<>>
    /\ issued = <<>>
    /\ authOp = NoRequest

Rejected(op, token, row, returned) ==
    /\ authOp' = Request(op, token, row, returned)
    /\ UNCHANGED <<users, issued>>

\* auth/service.py register_user
RegisterUser(email, password, confirm_password) ==
    /\ IF password # confirm_password
         THEN Rejected("register_user", 0, 0, "400")
       ELSE IF UserByEmail(email) # 0
         THEN Rejected("register_user", 0, UserByEmail(email), "409")
       ELSE /\ Len(users) < MaxUsers
            /\ Len(issued) < MaxTokens
            /\ users' = Append(users, [email |-> email,
                                       password |-> hash_password(password),
                                       is_active |-> TRUE,
                                       is_verified |-> FALSE,
                                       verification_token |-> Some(generate_verification_token)])
            /\ issued' = Issue("register_user", Len(users) + 1)
            /\ authOp' = Request("register_user", generate_verification_token, Len(users) + 1, "user")
    /\ UNCHANGED outsideAuth

\* auth/service.py verify_email
VerifyEmail(token) ==
    /\ LET id == UserByToken(token)
       IN IF id = 0
            THEN Rejected("verify_email", token, 0, "False")
          ELSE /\ users' = [users EXCEPT ![id] = verify_user(@)]
               /\ issued' = Accept(token)
               /\ authOp' = Request("verify_email", token, id, "True")
    /\ UNCHANGED outsideAuth

\* auth/service.py request_password_reset
RequestPasswordReset(email) ==
    /\ LET id == UserByEmail(email)
       IN IF id = 0
            THEN Rejected("request_password_reset", 0, 0, "False")
          ELSE /\ Len(issued) < MaxTokens
               /\ users' = [users EXCEPT ![id].verification_token = Some(generate_verification_token)]
               /\ issued' = Issue("request_password_reset", id)
               /\ authOp' = Request("request_password_reset", generate_verification_token, id, "True")
    /\ UNCHANGED outsideAuth

\* auth/service.py reset_password
ResetPassword(token, password) ==
    /\ LET id == UserByToken(token)
       IN IF id = 0
            THEN Rejected("reset_password", token, 0, "False")
          ELSE /\ users' = [users EXCEPT ![id].password = hash_password(password),
                                         ![id].verification_token = None]
               /\ issued' = Accept(token)
               /\ authOp' = Request("reset_password", token, id, "True")
    /\ UNCHANGED outsideAuth

\* user/service.py update_user_profile; "" is a field the request leaves
\* out. An HTTPException leaves the session uncommitted.
UpdateUserProfile(user_id, email, password, confirm_password) ==
    /\ IF user_id > Len(users)
         THEN Rejected("update_user_profile", 0, 0, "404")
       ELSE LET user == users[user_id]
                changes_email == email # "" /\ email # user.email
                with_email == IF changes_email
                                THEN [user EXCEPT !.email = email,
                                                  !.is_verified = FALSE,
                                                  !.verification_token = Some(generate_verification_token)]
                                ELSE user
                with_password == IF password # ""
                                   THEN [with_email EXCEPT !.password = hash_password(password)]
                                   ELSE with_email
            IN IF changes_email /\ UserByEmail(email) # 0
                 THEN Rejected("update_user_profile", 0, user_id, "409")
               ELSE IF password # "" /\ (confirm_password = "" \/ password # confirm_password)
                 THEN Rejected("update_user_profile", 0, user_id, "400")
               ELSE /\ changes_email => Len(issued) < MaxTokens
                    /\ users' = [users EXCEPT ![user_id] = with_password]
                    /\ issued' = IF changes_email THEN Issue("update_user_profile", user_id) ELSE issued
                    /\ authOp' = Request("update_user_profile",
                                         IF changes_email THEN generate_verification_token ELSE 0,
                                         user_id, "user")
    /\ UNCHANGED outsideAuth

\* auth/service.py login_user: what it answers for the table as it is
LoginAnswer(email, password) == LET id == UserByEmail(email) IN IF id = 0 \/ ~verify_password(users[id], password) THEN "401" ELSE IF ~users[id].is_active THEN "401" ELSE IF ~users[id].is_verified THEN "403" ELSE "tokens"

\* auth/service.py login_user; last_login, the one column it writes, is not
\* among the modelled columns
LoginUser(email, password) ==
    /\ authOp' = Request("login_user", 0, UserByEmail(email), LoginAnswer(email, password))
    /\ UNCHANGED <<users, issued, outsideAuth>>

\* auth/dependencies.py get_current_user for a valid access token whose
\* subject is sub, on an endpoint that requires no scope
CurrentUserAnswer(sub) == IF sub > Len(users) THEN "401" ELSE IF ~users[sub].is_active THEN "401" ELSE IF ~users[sub].is_verified THEN "403" ELSE "user"

GetCurrentUser(sub) ==
    /\ authOp' = Request("get_current_user", 0, IF sub > Len(users) THEN 0 ELSE sub, CurrentUserAnswer(sub))
    /\ UNCHANGED <<users, issued, outsideAuth>>

AuthNext ==
    \/ \E email \in Emails, confirm_password \in Passwords : RegisterUser(email, "password1", confirm_password)
    \/ \E token \in 0..MaxTokens : VerifyEmail(token)
    \/ \E email \in Emails : RequestPasswordReset(email)
    \/ \E token \in 0..MaxTokens : ResetPassword(token, "password2")
    \/ \E user_id \in 1..MaxUsers, email \in Emails \cup {""}, password \in {"", "password2"}, confirm_password \in {"", "password2"} : UpdateUserProfile(user_id, email, password, confirm_password)
    \/ \E email \in Emails, password \in Passwords : LoginUser(email, password)
    \/ \E sub \in 1..MaxUsers : GetCurrentUser(sub)

AuthInit == AuthStart /\ CounterIdle /\ ContentIdle /\ SearchIdle /\ EmbedIdle /\ SubscriberIdle

SpecAuth == AuthInit /\ [][AuthNext]_vars

(***************************************************************************)
(* Tokens and what they are for                                            *)
(***************************************************************************)
EmailVerificationIssuers == {"register_user", "update_user_profile"}

Accepts(op) == authOp'.op = op /\ authOp'.returned = "True"

C28_AcceptedAtMostOnce == \A token \in 1..Len(issued) : issued[token].accepted <= 1

(***************************************************************************)
(* Who can authenticate                                                    *)
(***************************************************************************)
\* the token the user's latest email change issued has been accepted
EmailChangeConfirmed(id) == \A token \in 1..Len(issued) : (/\ issued[token].by = "update_user_profile" /\ issued[token].user = id /\ \A later \in (token + 1)..Len(issued) : ~(issued[later].by = "update_user_profile" /\ issued[later].user = id)) => issued[token].accepted > 0

\* the part of C29 the code keeps: login_user returns tokens and
\* get_current_user returns a user only for a user who is active and
\* verified when called, login_user only with the matching password
C29_OnlyActiveVerified ==
    [][/\ \A email \in Emails, password \in Passwords :
             (LoginUser(email, password) /\ authOp'.returned = "tokens")
             => /\ UserByEmail(email) # 0
                /\ users[UserByEmail(email)].is_active
                /\ users[UserByEmail(email)].is_verified
                /\ verify_password(users[UserByEmail(email)], password)
       /\ \A sub \in 1..MaxUsers :
             (GetCurrentUser(sub) /\ authOp'.returned = "user")
             => /\ sub <= Len(users)
                /\ users[sub].is_active
                /\ users[sub].is_verified]_vars

SubscriberByEmail(email) == LET ids == {i \in 1..Len(subscribers) : subscribers[i].email = email} IN IF ids = {} THEN 0 ELSE CHOOSE i \in ids : \A j \in ids : i <= j

\* get_subscriber_by_token
SubscriberByToken(token) == LET ids == {i \in 1..Len(subscribers) : subscribers[i].verification_token = Some(token)} IN IF ids = {} THEN 0 ELSE CHOOSE i \in ids : \A j \in ids : i <= j

\* Subscriber.verify
verify(subscriber) == [subscriber EXCEPT !.is_verified = TRUE, !.verification_token = None]

\* Subscriber.unsubscribe
unsubscribe(subscriber) == [subscriber EXCEPT !.is_active = FALSE, !.unsubscribed_at = Some(Now)]

\* A variant that draws a new token for a verified subscriber too.
resubscribeWithToken(subscriber, token) == IF subscriber.is_active THEN subscriber ELSE [subscriber EXCEPT !.is_active = TRUE, !.unsubscribed_at = None, !.verification_token = Some(token)]

\* Subscriber.resubscribe; token is what generate_verification_token
\* returns if it is called
resubscribe(subscriber, token) == IF subscriber.is_active THEN subscriber ELSE IF subscriber.is_verified THEN [subscriber EXCEPT !.is_active = TRUE, !.unsubscribed_at = None] ELSE [subscriber EXCEPT !.is_active = TRUE, !.unsubscribed_at = None, !.verification_token = Some(token)]

\* whether resubscribe calls generate_verification_token
Draws(subscriber) == ~subscriber.is_active /\ ~subscriber.is_verified

SubscriberStart ==
    /\ subscribers = <<>>
    /\ drawn = 0
    /\ subOp = NoRequest

\* subscriber/service.py create_subscriber
CreateSubscriber(email) ==
    /\ LET id == SubscriberByEmail(email)
       IN IF id # 0 /\ ~subscribers[id].is_active
            THEN /\ Draws(subscribers[id]) => drawn < MaxTokens
                 /\ subscribers' = [subscribers EXCEPT ![id] = resubscribe(@, drawn + 1)]
                 /\ drawn' = IF Draws(subscribers[id]) THEN drawn + 1 ELSE drawn
                 /\ subOp' = Request("create_subscriber", 0, id, "subscriber")
          ELSE IF id # 0
            THEN /\ subOp' = Request("create_subscriber", 0, id, "409")
                 /\ UNCHANGED <<subscribers, drawn>>
          ELSE /\ drawn < MaxTokens
               /\ subscribers' = Append(subscribers, [email |-> email,
                                                      is_active |-> TRUE,
                                                      is_verified |-> FALSE,
                                                      verification_token |-> Some(drawn + 1),
                                                      unsubscribed_at |-> None])
               /\ drawn' = drawn + 1
               /\ subOp' = Request("create_subscriber", drawn + 1, Len(subscribers) + 1, "subscriber")
    /\ UNCHANGED outsideSubscriber

\* subscriber/service.py verify_subscriber
VerifySubscriber(token) ==
    /\ LET id == SubscriberByToken(token)
       IN IF id = 0
            THEN /\ subOp' = Request("verify_subscriber", token, 0, "404")
                 /\ UNCHANGED <<subscribers, drawn>>
          ELSE /\ subscribers' = [subscribers EXCEPT ![id] = verify(@)]
               /\ subOp' = Request("verify_subscriber", token, id, "subscriber")
               /\ UNCHANGED drawn
    /\ UNCHANGED outsideSubscriber

\* subscriber/service.py update_subscriber; is_active is None, Some(TRUE)
\* or Some(FALSE)
UpdateSubscriber(subscriber_id, is_active) ==
    /\ IF subscriber_id > Len(subscribers)
         THEN /\ subOp' = Request("update_subscriber", 0, 0, "404")
              /\ UNCHANGED <<subscribers, drawn>>
       ELSE LET subscriber == subscribers[subscriber_id]
                resubscribes == is_active = Some(TRUE) /\ ~subscriber.is_active
                unsubscribes == is_active = Some(FALSE) /\ subscriber.is_active
            IN /\ (resubscribes /\ Draws(subscriber)) => drawn < MaxTokens
               /\ subscribers' = [subscribers EXCEPT ![subscriber_id] =
                                     IF resubscribes THEN resubscribe(@, drawn + 1)
                                     ELSE IF unsubscribes THEN unsubscribe(@)
                                     ELSE @]
               /\ drawn' = IF resubscribes /\ Draws(subscriber) THEN drawn + 1 ELSE drawn
               /\ subOp' = Request("update_subscriber", 0, subscriber_id, "subscriber")
    /\ UNCHANGED outsideSubscriber

\* subscriber/service.py unsubscribe_by_email
UnsubscribeByEmail(email) ==
    /\ LET id == SubscriberByEmail(email)
       IN IF id = 0
            THEN /\ subOp' = Request("unsubscribe_by_email", 0, 0, "404")
                 /\ UNCHANGED subscribers
          ELSE /\ subscribers' = [subscribers EXCEPT ![id] = unsubscribe(@)]
               /\ subOp' = Request("unsubscribe_by_email", 0, id, "subscriber")
    /\ UNCHANGED <<drawn, outsideSubscriber>>

SubscriberNext ==
    \/ \E email \in Emails : CreateSubscriber(email)
    \/ \E token \in 0..MaxTokens : VerifySubscriber(token)
    \/ \E subscriber_id \in 1..MaxUsers, is_active \in {None, Some(TRUE), Some(FALSE)} : UpdateSubscriber(subscriber_id, is_active)
    \/ \E email \in Emails : UnsubscribeByEmail(email)

SubscriberInit == SubscriberStart /\ CounterIdle /\ ContentIdle /\ SearchIdle /\ EmbedIdle /\ AuthIdle

SpecSubscriber == SubscriberInit /\ [][SubscriberNext]_vars

(***************************************************************************)
(* The subscribers table                                                   *)
(***************************************************************************)
SubscriberConsistent(subscriber) ==
    /\ ~subscriber.is_active <=> subscriber.unsubscribed_at # None
    /\ subscriber.is_verified => subscriber.verification_token = None
    /\ ~subscriber.is_verified => subscriber.verification_token # None

\* C30: after any sequence of create_subscriber, verify_subscriber,
\* update_subscriber and unsubscribe_by_email calls there is at most one
\* subscriber per email, and for every subscriber is_active is false if and
\* only if unsubscribed_at is set, a verified one has no verification_token
\* and an unverified one has one; create_subscriber for the email of an
\* active subscriber is rejected with a conflict and changes nothing, and
\* for the email of an inactive one it reactivates the existing row and
\* adds none.
C30_SubscribersConsistent ==
    /\ [](/\ \A i, j \in 1..Len(subscribers) : subscribers[i].email = subscribers[j].email => i = j
          /\ \A i \in 1..Len(subscribers) : SubscriberConsistent(subscribers[i]))
    /\ [][(subOp'.op = "create_subscriber" /\ subOp'.row <= Len(subscribers)) =>
             IF subscribers[subOp'.row].is_active
               THEN subOp'.returned = "409" /\ subscribers' = subscribers
               ELSE /\ subOp'.returned = "subscriber"
                    /\ Len(subscribers') = Len(subscribers)
                    /\ subscribers'[subOp'.row].is_active
                    /\ \A i \in 1..Len(subscribers) : i # subOp'.row => subscribers'[i] = subscribers[i]]_vars

\* create_subscriber has reactivated a verified subscriber who had
\* unsubscribed, beside another subscriber who is unverified and inactive
C30_Witness ==
    /\ subOp.op = "create_subscriber"
    /\ subOp.returned = "subscriber"
    /\ subscribers[subOp.row].is_verified
    /\ subscribers[subOp.row].is_active
    /\ \E i \in 1..Len(subscribers) : ~subscribers[i].is_verified /\ ~subscribers[i].is_active

=============================================================================
